---- MODULE Spec2Model ----
(***************************************************************************)
(* A model of devflow's version derivation: the branch classifier          *)
(* (devflow/utils.py), the Python version deriver and the Debian version   *)
(* mapper (devflow/versioning.py), driven by the branch-type table of      *)
(* devflow/__init__.py.                                                    *)
(*                                                                         *)
(* Python strings are modelled as sequences of one-character strings, so   *)
(* that splitting, replacing, regular-expression matching and the two      *)
(* version orderings are computed character by character as the code and   *)
(* the libraries it relies on compute them.                                *)
(***************************************************************************)
EXTENDS Integers, Sequences, FiniteSets, TLC

\* ------------------------------------------------------------------------
\* Characters and strings
\* ------------------------------------------------------------------------

DigitChars == <<"0", "1", "2", "3", "4", "5", "6", "7", "8", "9">>

LetterChars ==
    <<"a", "b", "c", "d", "e", "f", "g", "h", "i", "j", "k", "l", "m",
      "n", "o", "p", "q", "r", "s", "t", "u", "v", "w", "x", "y", "z">>

IsDigit(c) == \E i \in 1..10 : DigitChars[i] = c

IsLower(c) == \E i \in 1..26 : LetterChars[i] = c

DigitValue(c) == (CHOOSE i \in 1..10 : DigitChars[i] = c) - 1

\* The ASCII code of a character of the model's alphabet.
Ord(c) ==
    IF IsDigit(c) THEN 48 + DigitValue(c)
    ELSE IF IsLower(c) THEN 96 + (CHOOSE i \in 1..26 : LetterChars[i] = c)
    ELSE CASE c = "*" -> 42
           [] c = "-" -> 45
           [] c = "." -> 46
           [] c = "/" -> 47
           [] c = "@" -> 64
           [] c = "_" -> 95
           [] c = "~" -> 126

Drop(s, n) == SubSeq(s, n + 1, Len(s))

Take(s, n) == SubSeq(s, 1, n)

\* str.startswith
StartsWith(s, p) == Len(p) <= Len(s) /\ Take(s, Len(p)) = p

\* c in s
Contains(s, c) == \E i \in 1..Len(s) : s[i] = c

\* Python's comparison of two strings: by code point, a proper prefix first.
RECURSIVE StrLess(_, _)
StrLess(a, b) ==
    IF b = <<>> THEN FALSE
    ELSE IF a = <<>> THEN TRUE
    ELSE IF Head(a) = Head(b) THEN StrLess(Tail(a), Tail(b))
    ELSE Ord(Head(a)) < Ord(Head(b))

\* str.split(sep) for a one-character separator: every separator splits,
\* empty fields are kept.
RECURSIVE SplitFrom(_, _, _)
SplitFrom(s, sep, field) ==
    IF s = <<>> THEN <<field>>
    ELSE IF Head(s) = sep THEN <<field>> \o SplitFrom(Tail(s), sep, <<>>)
    ELSE SplitFrom(Tail(s), sep, Append(field, Head(s)))

Split(s, sep) == SplitFrom(s, sep, <<>>)

\* str.replace(old, new, count) for a non-empty old: left to right, without
\* overlap; count = -1 replaces every occurrence.
RECURSIVE Replace(_, _, _, _)
Replace(s, old, new, count) ==
    IF count = 0 \/ Len(s) < Len(old) THEN s
    ELSE IF StartsWith(s, old)
         THEN new \o Replace(Drop(s, Len(old)), old, new, count - 1)
         ELSE <<Head(s)>> \o Replace(Tail(s), old, new, count)

\* "%d" % n, for n >= 0.
RECURSIVE ToDecimal(_)
ToDecimal(n) ==
    IF n < 10 THEN <<DigitChars[n + 1]>>
    ELSE Append(ToDecimal(n \div 10), DigitChars[(n % 10) + 1])

\* "-".join(parts) and the like.
RECURSIVE Join(_, _)
Join(parts, sep) ==
    IF parts = <<>> THEN <<>>
    ELSE IF Len(parts) = 1 THEN parts[1]
    ELSE parts[1] \o sep \o Join(Tail(parts), sep)

AllDigits(s) == \A i \in 1..Len(s) : IsDigit(s[i])

\* ------------------------------------------------------------------------
\* devflow/__init__.py: the version grammar and the branch-type table
\* ------------------------------------------------------------------------

S_feature == <<"f", "e", "a", "t", "u", "r", "e">>

S_develop == <<"d", "e", "v", "e", "l", "o", "p">>

S_release == <<"r", "e", "l", "e", "a", "s", "e">>

S_master == <<"m", "a", "s", "t", "e", "r">>

S_hotfix == <<"h", "o", "t", "f", "i", "x">>

S_debian == <<"d", "e", "b", "i", "a", "n">>

S_next == <<"n", "e", "x", "t">>

S_dev == <<"d", "e", "v">>

S_dotdev == <<".", "d", "e", "v">>

S_rc == <<"r", "c">>

\* The length of the longest run of digits s starts with ([0-9]+, greedy).
RECURSIVE DigitRun(_)
DigitRun(s) ==
    IF s # <<>> /\ IsDigit(Head(s)) THEN 1 + DigitRun(Tail(s)) ELSE 0

\* The length of the longest prefix of s matching (\.[0-9]+)*.
RECURSIVE DotComponentsLen(_)
DotComponentsLen(s) ==
    IF Len(s) >= 2 /\ s[1] = "." /\ DigitRun(Tail(s)) > 0
    THEN 1 + DigitRun(Tail(s))
           + DotComponentsLen(Drop(s, 1 + DigitRun(Tail(s))))
    ELSE 0

\* re.match(VERSION_RE, s): the length of the (greedy) match of
\* [0-9]+\.[0-9]+(\.[0-9]+)* at the start of s, 0 when there is none.
VERSION_RE(s) ==
    LET d1 == DigitRun(s)
        r1 == Drop(s, d1 + 1)
        d2 == DigitRun(r1)
    IN  IF d1 = 0 \/ Len(s) < d1 + 2 \/ s[d1 + 1] # "." \/ d2 = 0
        THEN 0
        ELSE d1 + 1 + d2 + DotComponentsLen(Drop(r1, d2))

\* Whether s consists of zero or more matches of RC_RE, rc[1-9][0-9]*.
RECURSIVE RC_RE_Star(_)
RC_RE_Star(s) ==
    \/ s = <<>>
    \/ /\ Len(s) >= 3
       /\ StartsWith(s, S_rc)
       /\ IsDigit(s[3]) /\ s[3] # "0"
       /\ RC_RE_Star(Drop(s, 3 + DigitRun(Drop(s, 3))))

NoMatch == [matched |-> FALSE, bverstr |-> <<>>]

\* "^%s(next|\.?dev)?$" % VERSION_RE : feature and develop.
DevelopVersionRe(s) ==
    LET n == VERSION_RE(s)
    IN  IF n > 0 /\ Drop(s, n) \in {<<>>, S_next, S_dev, S_dotdev}
        THEN [matched |-> TRUE, bverstr |-> <<>>]
        ELSE NoMatch

\* A release pattern whose group spans the release candidate too.
ReleaseVersionRe_WholeGroup(s) ==
    LET n == VERSION_RE(s)
    IN  IF n > 0 /\ Drop(s, n) # <<>> /\ RC_RE_Star(Drop(s, n))
        THEN [matched |-> TRUE, bverstr |-> s]
        ELSE NoMatch

\* "^(?P<bverstr>%s)(%s)+$" % (VERSION_RE, RC_RE) : release.
ReleaseVersionRe(s) ==
    LET n == VERSION_RE(s)
    IN  IF n > 0 /\ Drop(s, n) # <<>> /\ RC_RE_Star(Drop(s, n))
        THEN [matched |-> TRUE, bverstr |-> Take(s, n)]
        ELSE NoMatch

\* "^%s$" % VERSION_RE : master.
MasterVersionRe(s) ==
    IF VERSION_RE(s) > 0 /\ VERSION_RE(s) = Len(s)
    THEN [matched |-> TRUE, bverstr |-> <<>>]
    ELSE NoMatch

\* r"^(?P<bverstr>^%s\.[1-9][0-9]*)(%s)*$" % (VERSION_RE, RC_RE) : hotfix.
\* The group is the whole dotted number: VERSION_RE gives its last component
\* back to \.[1-9][0-9]*, so there are at least three components and the
\* last one does not start with 0.
HotfixVersionRe(s) ==
    LET n == VERSION_RE(s)
        parts == Split(Take(s, n), ".")
    IN  IF /\ n > 0
           /\ Len(parts) >= 3
           /\ Head(parts[Len(parts)]) # "0"
           /\ RC_RE_Star(Drop(s, n))
        THEN [matched |-> TRUE, bverstr |-> Take(s, n)]
        ELSE NoMatch

BranchTypeNames == {S_feature, S_develop, S_release, S_master, S_hotfix}

\* re.match(btype.allowed_version_re, base_version) for the type named t.
AllowedVersionRe(t, s) ==
    CASE t = S_feature -> DevelopVersionRe(s)
      [] t = S_develop -> DevelopVersionRe(s)
      [] t = S_release -> ReleaseVersionRe(s)
      [] t = S_master -> MasterVersionRe(s)
      [] t = S_hotfix -> HotfixVersionRe(s)

\* BRANCH_TYPES[t], without the pattern (see AllowedVersionRe).
BRANCH_TYPES(t) ==
    CASE t = S_feature ->
           [builds_snapshot |-> TRUE, builds_release |-> FALSE,
            versioned |-> FALSE]
      [] t = S_develop ->
           [builds_snapshot |-> TRUE, builds_release |-> FALSE,
            versioned |-> FALSE]
      [] t = S_release ->
           [builds_snapshot |-> TRUE, builds_release |-> TRUE,
            versioned |-> TRUE]
      [] t = S_master ->
           [builds_snapshot |-> TRUE, builds_release |-> TRUE,
            versioned |-> FALSE]
      [] t = S_hotfix ->
           [builds_snapshot |-> TRUE, builds_release |-> TRUE,
            versioned |-> TRUE]

\* ------------------------------------------------------------------------
\* devflow/utils.py: the branch classifier
\* ------------------------------------------------------------------------

\* A normalize_branch_name that knows the "debian-" prefix only.
normalize_branch_name_DebianOnly(branch_name, codename) ==
    IF branch_name = S_debian THEN S_master
    ELSE IF branch_name = codename THEN S_master
    ELSE IF branch_name = S_debian \o <<"-">> \o codename THEN S_master
    ELSE IF StartsWith(branch_name, S_debian \o <<"-">>)
         THEN Replace(branch_name, S_debian \o <<"-">>, <<>>, 1)
    ELSE branch_name

normalize_branch_name(branch_name, codename) ==
    IF branch_name = S_debian THEN S_master
    ELSE IF branch_name = codename THEN S_master
    ELSE IF branch_name = S_debian \o <<"-">> \o codename THEN S_master
    ELSE IF StartsWith(branch_name, S_debian \o <<"-">> \o codename \o <<"-">>)
         THEN Replace(branch_name,
                      S_debian \o <<"-">> \o codename \o <<"-">>, <<>>, 1)
    ELSE IF StartsWith(branch_name, S_debian \o <<"-">>)
         THEN Replace(branch_name, S_debian \o <<"-">>, <<>>, 1)
    ELSE branch_name

\* The type a normalized name starts with: what precedes its first '-'.
TypeOfNormalized(brnorm) ==
    IF Contains(brnorm, "-") THEN Split(brnorm, "-")[1] ELSE brnorm

\* A get_branch_type that forgets to cut the name at the first '-'.
get_branch_type_Uncut(branch_name, codename) ==
    normalize_branch_name(branch_name, codename)

\* A get_branch_type applied to its own result, as get_build_mode applies it.
get_branch_type_Twice(branch_name, codename) ==
    TypeOfNormalized(
        normalize_branch_name(
            TypeOfNormalized(normalize_branch_name(branch_name, codename)),
            codename))

get_branch_type(branch_name, codename) ==
    TypeOfNormalized(normalize_branch_name(branch_name, codename))

\* utils.undebianize(branch): its last replace has no count.
undebianize(branch, codename) ==
    IF branch = S_debian THEN S_master
    ELSE IF branch = codename THEN S_master
    ELSE IF branch = S_debian \o <<"-">> \o codename THEN S_master
    ELSE IF StartsWith(branch, S_debian \o <<"-">> \o codename \o <<"-">>)
         THEN Replace(branch, S_debian \o <<"-">> \o codename \o <<"-">>,
                      <<>>, 1)
    ELSE IF StartsWith(branch, S_debian \o <<"-">>)
         THEN Replace(branch, S_debian \o <<"-">>, <<>>, -1)
    ELSE branch

\* ------------------------------------------------------------------------
\* devflow/versioning.py: the version deriver
\* ------------------------------------------------------------------------

Failure(kind) == [status |-> "error", err |-> kind, v |-> <<>>]

Success(v) == [status |-> "ok", err |-> "", v |-> v]

\* DEVFLOW_BUILD_MODE is not in the environment.
Unset == "unset"

\* A get_build_mode that looks at no branch type.
get_build_mode_NoLookup(environ_mode, branch_name, codename) ==
    IF environ_mode # Unset THEN Success(environ_mode)
    ELSE IF get_branch_type(get_branch_type(branch_name, codename), codename)
              \notin BranchTypeNames
    THEN Failure("MalformedBranchName")
    ELSE Success("release")

\* utils.get_build_mode(): the value of DEVFLOW_BUILD_MODE when there is
\* one, else the mode of the type of the type of the branch.
get_build_mode(environ_mode, branch_name, codename) ==
    IF environ_mode # Unset THEN Success(environ_mode)
    ELSE LET branch == get_branch_type(branch_name, codename)
             btypestr == get_branch_type(branch, codename)
         IN  IF btypestr \notin BranchTypeNames
             THEN Failure("MalformedBranchName")
             ELSE Success(IF BRANCH_TYPES(btypestr).builds_snapshot
                          THEN "snapshot" ELSE "release")

\* commit.hexsha[0:7]
short_id(hexsha) == SubSeq(hexsha, 1, IF Len(hexsha) < 7 THEN Len(hexsha) ELSE 7)

\* A get_commit_id that takes every name starting with "debian" for a
\* debian branch.
get_commit_id_AnyDebian(commit, cur_br_name) ==
    LET parents == commit.parents
    IN  IF Len(parents) = 1 THEN Success(short_id(commit.hexsha))
        ELSE IF Len(parents) = 2
        THEN IF StartsWith(cur_br_name, S_debian)
             THEN Success(short_id(parents[1]) \o <<"_">>
                            \o short_id(parents[2]))
             ELSE Success(short_id(commit.hexsha))
        ELSE Failure("RuntimeError")

\* utils.get_commit_id(commit, current_branch)
get_commit_id(commit, cur_br_name) ==
    LET parents == commit.parents
    IN  IF Len(parents) = 1 THEN Success(short_id(commit.hexsha))
        ELSE IF Len(parents) = 2
        THEN IF \/ StartsWith(cur_br_name, S_debian \o <<"-">>)
                \/ cur_br_name = S_debian
             THEN Success(short_id(parents[1]) \o <<"_">>
                            \o short_id(parents[2]))
             ELSE Success(short_id(commit.hexsha))
        ELSE Failure("RuntimeError")

\* A FormatVersion that puts the commit id before the commit count.
FormatVersion_IdFirst(base_version, vcs_info, snap) ==
    IF snap
    THEN base_version \o <<"_">> \o vcs_info.revid
           \o <<"_">> \o ToDecimal(vcs_info.revno)
    ELSE base_version

\* A FormatVersion that joins the snapshot suffix with '-'.
FormatVersion_Dashes(base_version, vcs_info, snap) ==
    IF snap
    THEN base_version \o <<"-">> \o ToDecimal(vcs_info.revno)
           \o <<"-">> \o vcs_info.revid
    ELSE base_version

\* The version python_version returns once every check has passed.
FormatVersion(base_version, vcs_info, snap) ==
    IF snap
    THEN base_version \o <<"_">> \o ToDecimal(vcs_info.revno)
           \o <<"_">> \o vcs_info.revid
    ELSE base_version

\* Whether the branch type refuses the mode.
ModeRefused(btype, snap) ==
    \/ snap /\ ~btype.builds_snapshot
    \/ ~snap /\ ~btype.builds_release

\* A BranchVersion that takes everything after the first '-'.
BranchVersion_Remainder(brnorm) ==
    LET parts == Split(brnorm, "-")
    IN  IF Len(parts) < 2 THEN [present |-> FALSE, bverstr |-> <<>>]
        ELSE [present |-> TRUE, bverstr |-> Join(Tail(parts), <<"-">>)]

\* brnorm.split("-")[1] of a versioned branch; the IndexError is its absence.
BranchVersion(brnorm) ==
    LET parts == Split(brnorm, "-")
    IN  IF Len(parts) < 2 THEN [present |-> FALSE, bverstr |-> <<>>]
        ELSE [present |-> TRUE, bverstr |-> parts[2]]

\* A check of the base version that leaves the branch's version out.
BaseVersionUnsuitable_PatternOnly(btype, m, bverstr) == ~m.matched

\* not m or (btype.versioned and m.groupdict()["bverstr"] != bverstr)
BaseVersionUnsuitable(btype, m, bverstr) ==
    ~m.matched \/ (btype.versioned /\ m.bverstr # bverstr)

python_version(base_version, vcs_info, mode, codename) ==
    LET branch == vcs_info.branch
        brnorm == normalize_branch_name(branch, codename)
        btypestr == get_branch_type(branch, codename)
    IN  IF btypestr \notin BranchTypeNames
        THEN Failure("UnknownBranchType")
        ELSE
        LET btype == BRANCH_TYPES(btypestr)
            bv == BranchVersion(brnorm)
            m == AllowedVersionRe(btypestr, base_version)
            snap == (mode = "snapshot")
        IN  IF btype.versioned /\ ~bv.present
            THEN Failure("MissingVersionInBranchName")
            ELSE IF btype.versioned /\ VERSION_RE(bv.bverstr) = 0
            THEN Failure("MalformedVersionInBranchName")
            ELSE IF BaseVersionUnsuitable(btype, m, bv.bverstr)
            THEN Failure("BaseVersionMismatch")
            ELSE IF mode \notin {"snapshot", "release"}
            THEN Failure("UnknownMode")
            ELSE IF ModeRefused(btype, snap)
            THEN Failure("IllegalModeForBranch")
            ELSE Success(FormatVersion(base_version, vcs_info, snap))

\* ------------------------------------------------------------------------
\* The Python version ordering the deriver is written against: setuptools'
\* parse_version (the V of python_version's docstring), which turns a
\* version into a tuple of strings that Python compares.
\* ------------------------------------------------------------------------

S_final == <<"f", "i", "n", "a", "l">>

S_finaldash == <<"f", "i", "n", "a", "l", "-">>

S_zeros == <<"0", "0", "0", "0", "0", "0", "0", "0">>

\* The alternative of component_re, (\d+ | [a-z]+ | \. | -), a character
\* belongs to; "other" characters are the text re.split leaves in between.
CharClass(c) ==
    IF IsDigit(c) THEN "digit"
    ELSE IF IsLower(c) THEN "lower"
    ELSE IF c = "." THEN "dot"
    ELSE IF c = "-" THEN "dash"
    ELSE "other"

\* component_re.split(s), without the empty strings: runs of digits, runs
\* of letters, single dots and dashes, and the runs of text in between.
RECURSIVE Components(_, _)
Components(s, cur) ==
    LET done == IF cur = <<>> THEN <<>> ELSE <<cur>>
    IN  IF s = <<>> THEN done
        ELSE IF /\ cur # <<>>
                /\ CharClass(Head(s)) = CharClass(cur[1])
                /\ CharClass(Head(s)) \notin {"dot", "dash"}
        THEN Components(Tail(s), Append(cur, Head(s)))
        ELSE done \o Components(Tail(s), <<Head(s)>>)

\* replace = {'pre':'c', 'preview':'c', '-':'final-', 'rc':'c', 'dev':'@'}
ReplaceComponent(part) ==
    CASE part = <<"p", "r", "e">> -> <<"c">>
      [] part = <<"p", "r", "e", "v", "i", "e", "w">> -> <<"c">>
      [] part = <<"-">> -> S_finaldash
      [] part = S_rc -> <<"c">>
      [] part = S_dev -> <<"@">>
      [] OTHER -> part

\* A zfill that pads nothing: numbers compare as strings.
ZFill_NoPadding(s, width) == s

\* str.zfill(width)
RECURSIVE ZFill(_, _)
ZFill(s, width) == IF Len(s) >= width THEN s ELSE ZFill(<<"0">> \o s, width)

\* _parse_version_parts(s), before the closing '*final'.
RECURSIVE VersionParts(_)
VersionParts(comps) ==
    IF comps = <<>> THEN <<>>
    ELSE LET part == ReplaceComponent(Head(comps))
         IN  IF part = <<".">> THEN VersionParts(Tail(comps))
             ELSE IF IsDigit(part[1])
             THEN <<ZFill(part, 8)>> \o VersionParts(Tail(comps))
             ELSE <<(<<"*">> \o part)>> \o VersionParts(Tail(comps))

RECURSIVE DropTrailing(_, _)
DropTrailing(parts, what) ==
    IF parts # <<>> /\ parts[Len(parts)] = what
    THEN DropTrailing(Take(parts, Len(parts) - 1), what)
    ELSE parts

\* The loop of parse_version over the parts, collected in acc.
RECURSIVE CollectParts(_, _)
CollectParts(parts, acc) ==
    IF parts = <<>> THEN acc
    ELSE LET part == Head(parts)
             kept ==
                 IF part[1] = "*"
                 THEN DropTrailing(
                          IF StrLess(part, <<"*">> \o S_final)
                          THEN DropTrailing(acc, <<"*">> \o S_finaldash)
                          ELSE acc,
                          S_zeros)
                 ELSE acc
         IN  CollectParts(Tail(parts), Append(kept, part))

parse_version(s) ==
    CollectParts(
        Append(VersionParts(Components(s, <<>>)), <<"*">> \o S_final), <<>>)

\* Python's comparison of two tuples of strings.
RECURSIVE TupleLess(_, _)
TupleLess(p, q) ==
    IF q = <<>> THEN FALSE
    ELSE IF p = <<>> THEN TRUE
    ELSE IF Head(p) = Head(q) THEN TupleLess(Tail(p), Tail(q))
    ELSE StrLess(Head(p), Head(q))

\* V(a) < V(b)
PyLess(a, b) == TupleLess(parse_version(a), parse_version(b))

\* ------------------------------------------------------------------------
\* The Debian version ordering (Debian policy, Version field; dpkg's
\* verrevcmp), which debian_version_from_python_version's docstring names.
\* ------------------------------------------------------------------------

\* dpkg's order(): the weight of a character outside a run of digits; the
\* end of the string weighs like a digit.
DebOrder(s) ==
    IF s = <<>> \/ IsDigit(Head(s)) THEN 0
    ELSE IF IsLower(Head(s)) THEN Ord(Head(s))
    ELSE IF Head(s) = "~" THEN -1
    ELSE Ord(Head(s)) + 256

RECURSIVE StripZeros(_)
StripZeros(s) ==
    IF s # <<>> /\ Head(s) = "0" THEN StripZeros(Tail(s)) ELSE s

\* The first difference of two digit runs of the same length: -1, 0 or 1.
RECURSIVE FirstDiff(_, _, _)
FirstDiff(a, b, n) ==
    IF n = 0 THEN 0
    ELSE IF Head(a) = Head(b) THEN FirstDiff(Tail(a), Tail(b), n - 1)
    ELSE IF Ord(Head(a)) < Ord(Head(b)) THEN -1 ELSE 1

\* dpkg's verrevcmp(a, b): -1, 0 or 1.
RECURSIVE VerRevCmp(_, _)
VerRevCmp(a, b) ==
    IF a = <<>> /\ b = <<>> THEN 0
    ELSE IF \/ (a # <<>> /\ ~IsDigit(Head(a)))
            \/ (b # <<>> /\ ~IsDigit(Head(b)))
    THEN IF DebOrder(a) # DebOrder(b)
         THEN (IF DebOrder(a) < DebOrder(b) THEN -1 ELSE 1)
         ELSE VerRevCmp(Tail(a), Tail(b))
    ELSE LET a1 == StripZeros(a)
             b1 == StripZeros(b)
             na == DigitRun(a1)
             nb == DigitRun(b1)
         IN  IF na > nb THEN 1
             ELSE IF na < nb THEN -1
             ELSE IF FirstDiff(a1, b1, na) # 0 THEN FirstDiff(a1, b1, na)
             ELSE VerRevCmp(Drop(a1, na), Drop(b1, nb))

\* The index of the last '-' of s, 0 when there is none.
LastDash(s) ==
    IF Contains(s, "-")
    THEN CHOOSE i \in 1..Len(s) :
             s[i] = "-" /\ \A j \in (i + 1)..Len(s) : s[j] # "-"
    ELSE 0

\* upstream_version[-debian_revision]: the revision follows the last '-'.
DebUpstream(s) == IF LastDash(s) = 0 THEN s ELSE Take(s, LastDash(s) - 1)

DebRevision(s) == IF LastDash(s) = 0 THEN <<>> ELSE Drop(s, LastDash(s))

\* a < b as Debian versions (no epochs).
DebLess(a, b) ==
    LET u == VerRevCmp(DebUpstream(a), DebUpstream(b))
    IN  u < 0 \/ (u = 0 /\ VerRevCmp(DebRevision(a), DebRevision(b)) < 0)

\* ------------------------------------------------------------------------
\* devflow/versioning.py: the Debian version mapper
\* ------------------------------------------------------------------------

S_debianslash == <<"d", "e", "b", "i", "a", "n", "/">>

version_to_tag(version) == Replace(version, <<"~">>, <<>>, -1)

\* A loop body that leaves minor as it is.
NextMinor_Same(minor) == minor

\* minor += 1
NextMinor(minor) == minor + 1

\* tag in repo.tags, for the tag of revision minor.
TagTaken(version_tag, codename, tags, minor) ==
    (S_debianslash \o version_tag \o <<"-">> \o ToDecimal(minor) \o codename)
        \in tags

\* A scan that looks at one tag only.
ScanRevisions_Once(version_tag, codename, tags, minor) ==
    IF (S_debianslash \o version_tag \o <<"-">> \o ToDecimal(minor)
          \o codename) \in tags
    THEN minor + 1
    ELSE minor

\* The while loop of get_revision, from the value minor has reached.
RECURSIVE ScanRevisions(_, _, _, _)
ScanRevisions(version_tag, codename, tags, minor) ==
    IF (S_debianslash \o version_tag \o <<"-">> \o ToDecimal(minor)
          \o codename) \in tags
    THEN ScanRevisions(version_tag, codename, tags, minor + 1)
    ELSE minor

\* A get_revision that looks for tags of the version as it is, '~' included.
get_revision_KeepsTildes(version, codename, tags) ==
    ScanRevisions(version, codename, tags, 1)

get_revision(version, codename, tags) ==
    ScanRevisions(version_to_tag(version), codename, tags, 1)

\* A transform that replaces the first '_' and the first 'rc' only.
DebianUpstream_FirstOnly(pyver) ==
    Replace(Replace(pyver, <<"_">>, <<"~">>, 1), S_rc, <<"~">> \o S_rc, 1)

\* A transform that keeps what precedes the first '_' only.
DebianUpstream_BaseOnly(pyver) ==
    Replace(Split(pyver, "_")[1], S_rc, <<"~">> \o S_rc, -1)

\* pyver.replace("_", "~").replace("rc", "~rc")
DebianUpstream(pyver) ==
    Replace(Replace(pyver, <<"_">>, <<"~">>, -1), S_rc, <<"~">> \o S_rc, -1)

debian_version_from_python_version(pyver, codename, tags) ==
    LET version == DebianUpstream(pyver)
        minor == ToDecimal(get_revision(version, codename, tags))
    IN  version \o <<"-">> \o minor \o <<"~">> \o codename

\* ------------------------------------------------------------------------
\* devflow/flow.py: the versions of the next release, develop and hotfix
\* ------------------------------------------------------------------------

\* str.rstrip(chars): trailing characters of the set chars are removed.
RECURSIVE RStrip(_, _)
RStrip(s, chars) ==
    IF s # <<>> /\ s[Len(s)] \in chars
    THEN RStrip(Take(s, Len(s) - 1), chars)
    ELSE s

\* sub in s
HasSubstring(s, sub) ==
    \E i \in 0..(Len(s) - Len(sub)) : SubSeq(s, i + 1, i + Len(sub)) = sub

\* The value of a decimal numeral, most significant digit first.
RECURSIVE NumeralValue(_, _)
NumeralValue(s, acc) ==
    IF s = <<>> THEN acc
    ELSE NumeralValue(Tail(s), 10 * acc + DigitValue(s[1]))

\* int(s): a ValueError unless s is a decimal numeral.
IntOf(s) ==
    IF s # <<>> /\ AllDigits(s)
    THEN [ok |-> TRUE, n |-> NumeralValue(s, 0)]
    ELSE [ok |-> FALSE, n |-> 0]

\* A MajorMinor that takes a missing minor number for 0.
MajorMinor_DefaultMinor(parts) ==
    IF ~IntOf(parts[1]).ok THEN [error |-> "ValueError", major |-> 0, minor |-> 0]
    ELSE IF Len(parts) < 2
    THEN [error |-> "", major |-> IntOf(parts[1]).n, minor |-> 0]
    ELSE IF ~IntOf(parts[2]).ok
    THEN [error |-> "ValueError", major |-> 0, minor |-> 0]
    ELSE [error |-> "", major |-> IntOf(parts[1]).n, minor |-> IntOf(parts[2]).n]

\* major = int(parts[0]); minor = int(parts[1]): an IndexError without
\* parts[1], a ValueError from int.
MajorMinor(parts) ==
    IF ~IntOf(parts[1]).ok THEN [error |-> "ValueError", major |-> 0, minor |-> 0]
    ELSE IF Len(parts) < 2 THEN [error |-> "IndexError", major |-> 0, minor |-> 0]
    ELSE IF ~IntOf(parts[2]).ok
    THEN [error |-> "ValueError", major |-> 0, minor |-> 0]
    ELSE [error |-> "", major |-> IntOf(parts[1]).n, minor |-> IntOf(parts[2]).n]

\* "%d.%d" % (major, minor)
DotPair(major, minor) == ToDecimal(major) \o <<".">> \o ToDecimal(minor)

\* A StripDev that leaves the dev suffix on.
StripDev_Keep(develop_version) == develop_version

\* develop_version.rstrip('.dev').rstrip('dev')
StripDev(develop_version) ==
    RStrip(RStrip(develop_version, {".", "d", "e", "v"}), {"d", "e", "v"})

\* A get_release_version that leaves the minor number of X.Ynext as it is.
get_release_version_NoBump(develop_version) ==
    IF HasSubstring(develop_version, S_next)
    THEN LET version == RStrip(develop_version, {"n", "e", "x", "t"})
             mm == MajorMinor(Split(version, "."))
         IN  IF mm.error # "" THEN Failure(mm.error)
             ELSE Success(DotPair(mm.major, mm.minor))
    ELSE Success(StripDev(develop_version))

get_release_version(develop_version) ==
    IF HasSubstring(develop_version, S_next)
    THEN LET version == RStrip(develop_version, {"n", "e", "x", "t"})
             mm == MajorMinor(Split(version, "."))
         IN  IF mm.error # "" THEN Failure(mm.error)
             ELSE Success(DotPair(mm.major, mm.minor + 1))
    ELSE Success(StripDev(develop_version))

\* A get_develop_version_from_release that appends 'next'.
get_develop_version_from_release_Next(release_version) ==
    LET mm == MajorMinor(Split(release_version, "."))
    IN  IF mm.error # "" THEN Failure(mm.error)
        ELSE Success(DotPair(mm.major, mm.minor + 1) \o S_next)

get_develop_version_from_release(release_version) ==
    LET mm == MajorMinor(Split(release_version, "."))
    IN  IF mm.error # "" THEN Failure(mm.error)
        ELSE Success(DotPair(mm.major, mm.minor + 1) \o S_dev)

\* int(parts[2]) if len(parts) > 2 else 0
HotfixNumber(parts) ==
    IF Len(parts) > 2 THEN IntOf(parts[3]) ELSE [ok |-> TRUE, n |-> 0]

\* A get_hotfix_version that counts a missing patch component as 1.
get_hotfix_version_FromOne(version) ==
    LET parts == Split(version, ".")
        mm == MajorMinor(parts)
        hotfix == IF Len(parts) > 2 THEN IntOf(parts[3])
                  ELSE [ok |-> TRUE, n |-> 1]
    IN  IF mm.error # "" THEN Failure(mm.error)
        ELSE IF ~hotfix.ok THEN Failure("ValueError")
        ELSE Success(DotPair(mm.major, mm.minor) \o <<".">>
                       \o ToDecimal(hotfix.n + 1))

get_hotfix_version(version) ==
    LET parts == Split(version, ".")
        mm == MajorMinor(parts)
        hotfix == HotfixNumber(parts)
    IN  IF mm.error # "" THEN Failure(mm.error)
        ELSE IF ~hotfix.ok THEN Failure("ValueError")
        ELSE Success(DotPair(mm.major, mm.minor) \o <<".">>
                       \o ToDecimal(hotfix.n + 1))

\* ------------------------------------------------------------------------
\* Bounds and the sets the inputs are drawn from
\* ------------------------------------------------------------------------

\* Release candidates are rc1 .. rcMaxRc.
MaxRc == 2

\* Commit counts are 1 .. MaxRevno.
MaxRevno == 2

\* A branch name has at most MaxTail segments after its first one.
MaxTail == 2

\* autopkg builds at most MaxBuilds packages of one repository.
MaxBuilds == 3

\* A commit has at most MaxParents parents.
MaxParents == 3

S_sid == <<"s", "i", "d">>

S_x == <<"x">>

S_abc1234 == <<"a", "b", "c", "1", "2", "3", "4">>

S_1234abc == <<"1", "2", "3", "4", "a", "b", "c">>

S_0_1 == <<"0", ".", "1">>

S_0_1rc1 == <<"0", ".", "1", "r", "c", "1">>

S_0_1_1 == <<"0", ".", "1", ".", "1">>

S_0_10 == <<"0", ".", "1", "0">>

Codenames == {S_sid}

\* Short commit ids: letters first, digits first.
RevIds == {S_abc1234, S_1234abc}

RevNos == 1..MaxRevno

\* The base number of the flow's versions.
BaseNumbers == {S_0_1}

RcSuffixes == {S_rc \o ToDecimal(n) : n \in 1..MaxRc}

\* What follows the base number: nothing, next, dev, rcN, .1, .1rcN.
Suffixes ==
    {<<>>, S_next, S_dev} \cup RcSuffixes
      \cup {<<".", "1">>} \cup {<<".", "1">> \o r : r \in RcSuffixes}

\* The base versions the flow writes to the version file.
FlowBases == {n \o suf : n \in BaseNumbers, suf \in Suffixes}

\* The branches of the flow: one feature branch, develop, master, and a
\* release and a hotfix branch for every base number.
FlowBranches ==
    {S_feature \o <<"-">> \o S_x, S_develop, S_master}
      \cup {S_release \o <<"-">> \o n : n \in BaseNumbers}
      \cup {S_hotfix \o <<"-">> \o n \o <<".", "1">> : n \in BaseNumbers}

\* Base versions beyond the flow's: another base number, and strings the
\* patterns must refuse.
OtherBases ==
    { S_0_1 \o S_dotdev,
      S_0_10,
      <<"0", ".", "1", "0", "r", "c", "1">>,
      <<"0", ".", "1", ".", "0">>,
      <<"0", ".", "1", "r", "c", "0">>,
      <<"0", ".", "1", "r", "c", "1", "r", "c", "2">>,
      <<"0", "1">>,
      <<"0", ".", "1", "x">>,
      <<"0", ".", "1", ".", "1", ".", "2">>,
      <<"0", ".", "1", ".">>,
      <<>> }

Bases == FlowBases \cup OtherBases

\* The two build modes, and the values DEVFLOW_BUILD_MODE may hold.
BuildModes == {"snapshot", "release"}

Modes == BuildModes \cup {"debug"}

\* Branch names: a prefix of the Debian side, a first segment and up to
\* MaxTail further segments, joined by '-'.
Prefixes == {<<>>, S_debian \o <<"-">>, S_debian \o <<"-">> \o S_sid \o <<"-">>}

Heads == BranchTypeNames \cup {S_debian, S_sid, <<>>, S_feature \o <<"s">>}

TailSegments == {<<>>, S_x, S_sid, S_0_1, S_0_1rc1, S_0_1_1}

RECURSIVE SegmentLists(_)
SegmentLists(k) ==
    IF k = 0 THEN {<<>>}
    ELSE SegmentLists(k - 1)
           \cup {Append(t, seg) : t \in SegmentLists(k - 1), seg \in TailSegments}

NamesWith(prefixes, k) ==
    {p \o Join(<<h>> \o t, <<"-">>) :
        p \in prefixes, h \in Heads, t \in SegmentLists(k)}

BranchNames == NamesWith(Prefixes, MaxTail)

\* The names with at most one further segment, with and without "debian-".
ShortBranchNames == NamesWith({<<>>, S_debian \o <<"-">>}, 1)

\* Commits: a count and a short id; the last id is that of a merge commit
\* on a debian branch, two parents' ids joined by '_'.
Commits ==
    { [revno |-> 1, revid |-> S_abc1234],
      [revno |-> MaxRevno, revid |-> S_1234abc],
      [revno |-> 249, revid |-> S_abc1234],
      [revno |-> 10, revid |-> S_abc1234 \o <<"_">> \o S_1234abc] }

\* Commit counts with one to four digits, neighbours across a new digit.
SnapshotCounts == {1, 2, 9, 10, 99, 100, 249, 1000}

\* Commit ids: letters first, digits first, and that of a merge commit on a
\* debian branch.
SnapshotIds == RevIds \cup {S_abc1234 \o <<"_">> \o S_1234abc}

\* ------------------------------------------------------------------------
\* State
\* ------------------------------------------------------------------------

VARIABLES
    base_version,   \* the content of the repository's version file
    vcs_info,       \* get_vcs_info(): [branch, revno, revid] of HEAD
    mode,           \* the build mode the callers pass
    codename,       \* get_distribution_codename()
    tags,           \* repo.tags
    result,         \* the outcome of the last call on this HEAD
    built,          \* the last version built before HEAD moved
    head,           \* the HEAD commit: its hexsha and its parents' hexshas
    builds,         \* the packages autopkg has built, oldest first
    repo            \* the branches of the repository the flow works on

vars ==
    <<base_version, vcs_info, mode, codename, tags, result, built, head,
      builds, repo>>

NotCalled ==
    [call |-> "none", status |-> "none", err |-> "", v |-> <<>>, deb |-> <<>>]

NoBuild ==
    [branch |-> <<>>, base_version |-> <<>>, mode |-> "", v |-> <<>>,
     deb |-> <<>>]

\* Commit names, longer than a short id: h and i differ in the last
\* character only.
Hexshas ==
    { S_abc1234 \o <<"5">>, S_abc1234 \o <<"6">>, S_1234abc \o <<"d">> }

RECURSIVE ParentLists(_)
ParentLists(k) ==
    IF k = 0 THEN {<<>>}
    ELSE ParentLists(k - 1)
           \cup {Append(ps, h) : ps \in ParentLists(k - 1), h \in Hexshas}

\* Branches HEAD may be on when its commit id is taken.
CommitBranches ==
    { S_debian, S_debian \o <<"-">> \o S_sid,
      S_debian \o <<"-">> \o S_release \o <<"-">> \o S_0_1,
      S_debian \o S_x, S_debian \o <<"_">> \o S_x,
      S_x \o <<"-">> \o S_debian \o <<"-">>,
      S_master, S_develop, S_sid }

\* A repository whose branches no operation looks at.
NoRepo ==
    [branches |-> [b \in {} |-> 0], active |-> <<>>, next |-> 0,
     commands |-> 0, start |-> [branches |-> [b \in {} |-> 0],
                                active |-> <<>>, tags |-> {}]]

\* A HEAD whose commit no operation looks at.
NoCommit == [hexsha |-> <<>>, parents |-> <<>>]

\* The record of a finished call.
Outcome(call, r, deb) ==
    [call |-> call, status |-> r.status, err |-> r.err, v |-> r.v,
     deb |-> deb]

\* ------------------------------------------------------------------------
\* Operations
\* ------------------------------------------------------------------------

\* python_version(base_version, vcs_info, mode)
PythonVersionCall ==
    /\ result' = Outcome("python_version",
                         python_version(base_version, vcs_info, mode, codename),
                         <<>>)
    /\ UNCHANGED <<base_version, vcs_info, mode, codename, tags, built, head,
                   builds, repo>>

\* debian_version(base_version, vcs_info, mode): python_version, whose error
\* propagates, then debian_version_from_python_version.
DebianVersionCall ==
    LET p == python_version(base_version, vcs_info, mode, codename)
    IN  /\ result' = Outcome("debian_version", p,
                             IF p.status = "ok"
                             THEN debian_version_from_python_version(
                                      p.v, codename, tags)
                             ELSE <<>>)
        /\ UNCHANGED <<base_version, vcs_info, mode, codename, tags, built,
                       head, builds, repo>>

\* What is kept of the last call once HEAD moves: the version it built, if
\* it built one.
Keep ==
    IF result.status = "ok"
    THEN [branch |-> vcs_info.branch, base_version |-> base_version,
          mode |-> mode, v |-> result.v, deb |-> result.deb]
    ELSE built

\* git checkout of another branch of the flow, at the same commit.
Checkout ==
    \E b \in FlowBranches :
        /\ b # vcs_info.branch
        /\ vcs_info' = [vcs_info EXCEPT !.branch = b]
        /\ built' = Keep
        /\ result' = NotCalled
        /\ UNCHANGED <<base_version, mode, codename, tags, head, builds, repo>>

\* git commit: one more commit, with a new id.
Commit ==
    \E id \in RevIds :
        /\ vcs_info.revno < MaxRevno
        /\ vcs_info' = [vcs_info EXCEPT !.revno = @ + 1, !.revid = id]
        /\ built' = Keep
        /\ result' = NotCalled
        /\ UNCHANGED <<base_version, mode, codename, tags, head, builds, repo>>

\* git pull: HEAD moves ahead by several commits, to a commit with any id.
PullCommits ==
    \E c \in SnapshotCounts, id \in SnapshotIds :
        /\ vcs_info.revno < c
        /\ vcs_info' = [vcs_info EXCEPT !.revno = c, !.revid = id]
        /\ built' = Keep
        /\ result' = NotCalled
        /\ UNCHANGED <<base_version, mode, codename, tags, head, builds, repo>>

\* The version file gets another of the flow's base versions.
EditVersionFile ==
    \E b \in FlowBases :
        /\ b # base_version
        /\ base_version' = b
        /\ built' = Keep
        /\ result' = NotCalled
        /\ UNCHANGED <<vcs_info, mode, codename, tags, head, builds, repo>>

\* The build mode is switched (DEVFLOW_BUILD_MODE).
SetBuildMode ==
    \E m \in BuildModes :
        /\ m # mode
        /\ mode' = m
        /\ built' = Keep
        /\ result' = NotCalled
        /\ UNCHANGED <<base_version, vcs_info, codename, tags, head,
                       builds, repo>>

\* get_vcs_info: get_commit_id(branch.commit, branch) of HEAD.
GetCommitIdCall ==
    /\ result' = Outcome("get_commit_id",
                         get_commit_id(head, vcs_info.branch), <<>>)
    /\ UNCHANGED <<base_version, vcs_info, mode, codename, tags, built, head,
                   builds, repo>>

\* git commit: HEAD becomes a new commit whose one parent is the old HEAD.
CommitOnHead ==
    \E h \in Hexshas :
        /\ h # head.hexsha
        /\ head' = [hexsha |-> h, parents |-> <<head.hexsha>>]
        /\ result' = NotCalled
        /\ UNCHANGED <<base_version, vcs_info, mode, codename, tags, built,
                       builds, repo>>

\* debian_version_from_python_version enters get_revision: minor = 1. The
\* call in progress holds the version in deb and minor, as a numeral, in v.
GetRevisionEnter ==
    LET p == python_version(base_version, vcs_info, mode, codename)
    IN  /\ result.status # "scanning"
        /\ p.status = "ok"
        /\ result' = [call |-> "get_revision", status |-> "scanning",
                      err |-> "", v |-> ToDecimal(1),
                      deb |-> DebianUpstream(p.v)]
        /\ UNCHANGED <<base_version, vcs_info, mode, codename, tags, built,
                       head, builds, repo>>

\* One turn of the while loop of get_revision: minor += 1 when the tag is
\* in repo.tags, return minor otherwise.
GetRevisionLoop ==
    LET minor == NumeralValue(result.v, 0)
    IN  /\ result.call = "get_revision" /\ result.status = "scanning"
        /\ IF TagTaken(version_to_tag(result.deb), codename, tags, minor)
           THEN result' = [result EXCEPT !.v = ToDecimal(NextMinor(minor))]
           ELSE result' = [result EXCEPT !.status = "ok"]
        /\ UNCHANGED <<base_version, vcs_info, mode, codename, tags, built,
                       head, builds, repo>>

\* get_build_mode(), mode holding DEVFLOW_BUILD_MODE; the mode returned is
\* kept as the one word of v.
GetBuildModeCall ==
    LET m == get_build_mode(mode, vcs_info.branch, codename)
    IN  /\ result' = Outcome("get_build_mode",
                             IF m.status = "ok" THEN Success(<<m.v>>) ELSE m,
                             <<>>)
        /\ UNCHANGED <<base_version, vcs_info, mode, codename, tags, built,
                       head, builds, repo>>

\* get_python_version(): python_version with the mode of get_build_mode,
\* whose error propagates.
GetPythonVersion ==
    LET m == get_build_mode(mode, vcs_info.branch, codename)
    IN  /\ result' = Outcome("get_python_version",
                             IF m.status = "ok"
                             THEN python_version(base_version, vcs_info, m.v,
                                                 codename)
                             ELSE m,
                             <<>>)
        /\ UNCHANGED <<base_version, vcs_info, mode, codename, tags, built,
                       head, builds, repo>>

\* autopkg takes the upstream branch of the current branch and refuses a
\* branch whose type it does not know.
UndebianizeCall ==
    LET branch == undebianize(vcs_info.branch, codename)
        branch_type_str == get_branch_type(branch, codename)
    IN  /\ result' = Outcome("undebianize",
                             IF branch_type_str \notin BranchTypeNames
                             THEN Failure("MalformedBranchName")
                             ELSE Success(branch),
                             <<>>)
        /\ UNCHANGED <<base_version, vcs_info, mode, codename, tags, built,
                       head, builds, repo>>

\* start_release: get_release_version(develop_version) of the version file.
GetReleaseVersionCall ==
    /\ result' = Outcome("get_release_version",
                         get_release_version(base_version), <<>>)
    /\ UNCHANGED <<base_version, vcs_info, mode, codename, tags, built, head,
                   builds, repo>>

\* get_develop_version_from_release(release_version) of the version file.
GetDevelopVersionCall ==
    /\ result' = Outcome("get_develop_version_from_release",
                         get_develop_version_from_release(base_version), <<>>)
    /\ UNCHANGED <<base_version, vcs_info, mode, codename, tags, built, head,
                   builds, repo>>

\* start_hotfix: get_hotfix_version(version) of the version file.
GetHotfixVersionCall ==
    /\ result' = Outcome("get_hotfix_version",
                         get_hotfix_version(base_version), <<>>)
    /\ UNCHANGED <<base_version, vcs_info, mode, codename, tags, built, head,
                   builds, repo>>

\* autopkg: the versions are computed (an unsuitable branch or base version
\* ends the run), the package is built, and a release build leaves two new
\* tags in the repository: the Python version and, for the Debian branch,
\* "debian/" + version_to_tag(debian_version).
AutopkgBuild ==
    LET p == python_version(base_version, vcs_info, mode, codename)
        debian_version ==
            debian_version_from_python_version(p.v, codename, tags)
        debian_branch_tag == S_debianslash \o version_to_tag(debian_version)
    IN  /\ Len(builds) < MaxBuilds
        /\ IF p.status = "ok"
           THEN /\ result' = Outcome("autopkg", p, debian_version)
                /\ builds' = Append(builds,
                                    [v |-> p.v, deb |-> debian_version,
                                     mode |-> mode, tags |-> tags])
                /\ tags' = IF mode = "release"
                           THEN tags \cup {p.v, debian_branch_tag}
                           ELSE tags
           ELSE /\ result' = Outcome("autopkg", p, <<>>)
                /\ UNCHANGED <<builds, tags>>
        /\ UNCHANGED <<base_version, vcs_info, mode, codename, built, head, repo>>

\* ------------------------------------------------------------------------
\* Specifications
\* ------------------------------------------------------------------------

\* Any branch name with the key base versions, or any base version with
\* the short branch names and any commit.
Init ==
    /\ \/ /\ vcs_info \in
               {[branch |-> b, revno |-> 249, revid |-> S_abc1234] :
                    b \in BranchNames}
          /\ base_version \in {S_0_1, S_0_1rc1, S_0_1_1}
       \/ /\ vcs_info \in
               {[branch |-> b, revno |-> c.revno, revid |-> c.revid] :
                    b \in ShortBranchNames, c \in Commits}
          /\ base_version \in Bases
    /\ mode \in Modes
    /\ codename \in Codenames
    /\ tags = {}
    /\ result = NotCalled
    /\ built = NoBuild
    /\ head = NoCommit
    /\ builds = <<>>
    /\ repo = NoRepo

Next == PythonVersionCall \/ DebianVersionCall

\* One call of the version deriver on any input.
Spec == Init /\ [][Next]_vars

InitFlow ==
    /\ vcs_info \in
         {[branch |-> b, revno |-> 1, revid |-> id] :
              b \in FlowBranches, id \in RevIds}
    /\ base_version \in FlowBases
    /\ mode \in BuildModes
    /\ codename \in Codenames
    /\ tags = {}
    /\ result = NotCalled
    /\ built = NoBuild
    /\ head = NoCommit
    /\ builds = <<>>
    /\ repo = NoRepo

NextFlow ==
    DebianVersionCall \/ Checkout \/ Commit \/ EditVersionFile \/ SetBuildMode

\* Builds of a repository that moves between the flow's branches, commits
\* and base versions: every pair of versions the deriver can produce.
SpecFlow == InitFlow /\ [][NextFlow]_vars

\* Version file contents for the flow's functions: one to three numbers
\* (carries, a leading zero), each with the decorations of the two version
\* schemes, and strings that are no versions.
VersionNumbers ==
    { <<"5">>, <<"0", ".", "1">>, <<"0", ".", "9">>, <<"0", ".", "1", "4">>,
      <<"0", ".", "1", "9">>, <<"5", ".", "9", "9">>, <<"1", "0", ".", "0">>,
      <<"0", ".", "0", "9">>, <<"0", ".", "1", "4", ".", "0">>,
      <<"0", ".", "1", "4", ".", "3">>, <<"0", ".", "1", "4", ".", "9">>,
      <<"5", ".", "9", "9", ".", "9", "9">>,
      <<"0", ".", "1", "4", ".", "3", ".", "2">> }

Decorations ==
    {<<>>, S_dev, S_dotdev, S_next, <<".">> \o S_next, S_rc \o <<"1">>}

VersionInputs ==
    {n \o d : n \in VersionNumbers, d \in Decorations}
      \cup { <<>>, S_dev, S_next, <<".", "5">>, <<"5", ".">>, <<"0", ".", "x">>,
              <<"x", ".", "1">>, <<"0", ".", "1", "4", ".", "x">>,
              S_next \o <<"0", ".", "5">>,
              <<"0", ".", "1", "4">> \o S_dev \o S_next }

InitVersions ==
    /\ base_version \in VersionInputs
    /\ vcs_info = [branch |-> S_develop, revno |-> 1, revid |-> S_abc1234]
    /\ mode = "snapshot"
    /\ codename \in Codenames
    /\ tags = {}
    /\ result = NotCalled
    /\ built = NoBuild
    /\ head = NoCommit
    /\ builds = <<>>
    /\ repo = NoRepo

NextVersions ==
    GetReleaseVersionCall \/ GetDevelopVersionCall \/ GetHotfixVersionCall

\* One call of a version function of the flow on any version file content.
SpecVersions == InitVersions /\ [][NextVersions]_vars

\* Debian branches of branches whose own name holds "debian-".
NestedDebianNames ==
    LET inner == S_feature \o <<"-">> \o S_debian \o <<"-">> \o S_x
    IN  {p \o inner : p \in Prefixes}

InitBranches ==
    /\ vcs_info \in
         {[branch |-> b, revno |-> 249, revid |-> S_abc1234] :
              b \in BranchNames \cup NestedDebianNames}
    /\ base_version \in {S_0_1, S_0_1rc1}
    /\ mode \in {Unset} \cup Modes
    /\ codename \in Codenames
    /\ tags = {}
    /\ result = NotCalled
    /\ built = NoBuild
    /\ head = NoCommit
    /\ builds = <<>>
    /\ repo = NoRepo

NextBranches == GetBuildModeCall \/ GetPythonVersion \/ UndebianizeCall

\* The callers of the branch classifier on any branch name, with and
\* without DEVFLOW_BUILD_MODE.
SpecBranches == InitBranches /\ [][NextBranches]_vars

InitSnapshots ==
    /\ vcs_info \in
         {[branch |-> b, revno |-> c, revid |-> id] :
              b \in {S_develop, S_release \o <<"-">> \o S_0_1,
                      S_debian \o <<"-">> \o S_feature \o <<"-">> \o S_x},
              c \in SnapshotCounts, id \in SnapshotIds}
    /\ base_version \in FlowBases
    /\ mode = "snapshot"
    /\ codename \in Codenames
    /\ tags = {}
    /\ result = NotCalled
    /\ built = NoBuild
    /\ head = NoCommit
    /\ builds = <<>>
    /\ repo = NoRepo

NextSnapshots == DebianVersionCall \/ PullCommits

\* Snapshot builds of one branch at one base version while commits arrive.
SpecSnapshots == InitSnapshots /\ [][NextSnapshots]_vars

InitCommit ==
    /\ head \in {[hexsha |-> h, parents |-> ps] :
                     h \in Hexshas, ps \in ParentLists(MaxParents)}
    /\ vcs_info \in {[branch |-> b, revno |-> 1, revid |-> S_abc1234] :
                         b \in CommitBranches}
    /\ base_version = S_0_1
    /\ mode = "snapshot"
    /\ codename \in Codenames
    /\ tags = {}
    /\ result = NotCalled
    /\ built = NoBuild
    /\ builds = <<>>
    /\ repo = NoRepo

NextCommit == GetCommitIdCall \/ CommitOnHead

\* The commit id of HEAD, for any number of parents and on any branch.
SpecCommit == InitCommit /\ [][NextCommit]_vars

\* The tag of revision n of a Debian version's stem.
DebianTag(stem, n, cn) ==
    S_debianslash \o stem \o <<"-">> \o ToDecimal(n) \o cn

\* Tags a repository may hold before autopkg runs: revisions of 0.1 with
\* and without a gap, of another version, for another distribution, and a
\* tag that is not a Debian one.
InitialTags ==
    { DebianTag(S_0_1, 1, S_sid), DebianTag(S_0_1, 2, S_sid),
      DebianTag(S_0_1rc1, 1, S_sid), DebianTag(S_0_1, 1, S_x),
      S_0_1rc1 }

InitPkg ==
    /\ vcs_info \in
         {[branch |-> b, revno |-> 249, revid |-> S_abc1234] :
              b \in {S_master, S_release \o <<"-">> \o S_0_1}}
    /\ base_version \in {S_0_1, S_0_1rc1}
    /\ mode \in BuildModes
    /\ codename \in Codenames
    /\ tags \in SUBSET InitialTags
    /\ result = NotCalled
    /\ built = NoBuild
    /\ head = NoCommit
    /\ builds = <<>>
    /\ repo = NoRepo

NextPkg == AutopkgBuild \/ DebianVersionCall \/ SetBuildMode

\* Package builds of a repository whose build mode changes between them,
\* starting from any of the initial tag sets.
SpecPkg == InitPkg /\ [][NextPkg]_vars

NextRevision == GetRevisionEnter \/ GetRevisionLoop

\* The tag scan of get_revision, turn by turn, from any of the initial tag
\* sets. The loop runs in one thread and waits for nothing, so a turn that
\* can be taken is taken.
SpecRevision ==
    InitPkg /\ [][NextRevision]_vars /\ WF_vars(GetRevisionLoop)

\* ------------------------------------------------------------------------
\* The repository the branch-lifecycle commands work on (flow.py). A branch
\* is its tip: the commit's id, the content of the version file in its tree
\* and the content the file had where the branch forked. A command runs on a
\* GitManager: the branches, the checked-out branch, the tags, the lists
\* new_branches and new_tags, and the exception being raised, if any.
\* ------------------------------------------------------------------------

\* The commands one behaviour runs.
MaxCommands == 2

S_debian_develop == S_debian \o <<"-">> \o S_develop

Tip(hex, version, fork) == [hex |-> hex, version |-> version, fork |-> fork]

\* GitManager.__init__: the state a command starts from, with the process
\* environment (DEVFLOW_BUILD_MODE and the distribution codename).
GitManager(r, t, environ_mode, cn) ==
    [branches |-> r.branches, active |-> r.active, next |-> r.next,
     tags |-> t, new_branches |-> <<>>, new_tags |-> <<>>,
     environ |-> environ_mode, codename |-> cn, raised |-> ""]

Raise(m, kind) == [m EXCEPT !.raised = kind]

\* repo.git.checkout(b)
git_checkout(m, b) ==
    IF b \in DOMAIN m.branches THEN [m EXCEPT !.active = b]
    ELSE Raise(m, "GitCommandError")

\* repo.git.branch(b, from) followed by new_branches.append(b)
git_branch(m, b, from) ==
    IF b \in DOMAIN m.branches \/ from \notin DOMAIN m.branches
    THEN Raise(m, "GitCommandError")
    ELSE LET tip == m.branches[from]
         IN  [m EXCEPT !.branches =
                           (b :> Tip(tip.hex, tip.version, tip.version)) @@ @,
                       !.new_branches = Append(@, b)]

\* repo.git.commit on the checked-out branch, the version file holding
\* version.
git_commit(m, version) ==
    [m EXCEPT !.branches[m.active] = Tip(m.next, version, @.fork),
              !.next = @ + 1]

\* repo.git.reset("--hard", tip)
git_reset(m, tip) == [m EXCEPT !.branches[m.active] = tip]

\* repo.git.branch("-D", b): git refuses a missing branch and the one that
\* is checked out.
git_branch_D(m, b) ==
    IF b \notin DOMAIN m.branches \/ b = m.active
    THEN Raise(m, "GitCommandError")
    ELSE [m EXCEPT !.branches =
                       [x \in DOMAIN m.branches \ {b} |-> m.branches[x]]]

\* The version file of a three-way merge: the side that changed it since
\* the fork wins, the merged branch where both did.
MergedVersion(ours, theirs) ==
    IF theirs.version = theirs.fork THEN ours.version ELSE theirs.version

\* GitManager._merge_branches(branch_to, branch_from)
merge_branches(m, branch_to, branch_from) ==
    LET cur_branch == m.active
        m1 == git_checkout(m, branch_to)
    IN  IF m1.raised # "" THEN m1
        ELSE IF branch_from \notin DOMAIN m.branches
        THEN Raise(m1, "GitCommandError")
        ELSE LET ours == m1.branches[branch_to]
                 theirs == m1.branches[branch_from]
                 m2 == git_commit(m1, MergedVersion(ours, theirs))
             IN  git_checkout(m2, cur_branch)

\* GitManager.edit_changelog(branch, base_branch)
edit_changelog(m, br, base_branch) ==
    IF br \notin DOMAIN m.branches THEN Raise(m, "ValueError")
    ELSE IF base_branch \notin DOMAIN m.branches
    THEN Raise(m, "ValueError")
    ELSE LET m1 == git_checkout(m, br)
         IN  git_commit(m1, m1.branches[br].version)

\* What bump_version leaves in the repository: the version file with
\* old_version replaced, committed; git refuses a commit that changes
\* nothing.
WriteAndCommit(m, new_version) ==
    LET old_version == m.branches[m.active].version
        written == Replace(old_version, old_version, new_version, -1)
    IN  IF written = old_version THEN Raise(m, "GitCommandError")
        ELSE git_commit(m, written)

\* A bump_version that writes and commits before it checks the version.
bump_version_WriteFirst(m, new_version) ==
    LET v == [branch |-> m.active, revno |-> m.next, revid |-> S_abc1234]
        bm == get_build_mode(m.environ, m.active, m.codename)
    IN  IF bm.status # "ok" THEN Raise(m, bm.err)
        ELSE LET p == python_version(new_version, v, bm.v, m.codename)
                 m1 == WriteAndCommit(m, new_version)
             IN  IF p.status # "ok" THEN Raise(m1, p.err) ELSE m1

bump_version(m, new_version) ==
    LET v == [branch |-> m.active, revno |-> m.next, revid |-> S_abc1234]
        bm == get_build_mode(m.environ, m.active, m.codename)
    IN  IF bm.status # "ok" THEN Raise(m, bm.err)
        ELSE LET p == python_version(new_version, v, bm.v, m.codename)
             IN  IF p.status # "ok" THEN Raise(m, p.err)
                 ELSE WriteAndCommit(m, new_version)

\* One statement of a command: what it does and to which branches.
Do(op, a, b) == [op |-> op, a |-> a, b |-> b]

Statement(m, st) ==
    CASE st.op = "checkout" -> git_checkout(m, st.a)
      [] st.op = "branch" -> git_branch(m, st.a, st.b)
      [] st.op = "bump_version" -> bump_version(m, st.a)
      [] st.op = "merge" -> merge_branches(m, st.a, st.b)
      [] st.op = "edit_changelog" -> edit_changelog(m, st.a, st.b)
      [] st.op = "branch -D" -> git_branch_D(m, st.a)
      [] st.op = "raise" -> Raise(m, st.a)

\* The statements of a command in order, up to the first that raises. The
\* statement numbered fail is interrupted before it acts (the bare except
\* of cleanup catches interrupts as well); fail = 0 interrupts none.
RECURSIVE RunSteps(_, _, _, _)
RunSteps(m, steps, i, fail) ==
    IF i > Len(steps) \/ m.raised # "" THEN m
    ELSE IF i = fail THEN Raise(m, "KeyboardInterrupt")
    ELSE RunSteps(Statement(m, steps[i]), steps, i + 1, fail)

RECURSIVE DeleteBranches(_, _, _)
DeleteBranches(m, names, i) ==
    IF i > Len(names) \/ m.raised # "" THEN m
    ELSE DeleteBranches(git_branch_D(m, names[i]), names, i + 1)

\* The except clause of cleanup: check the start branch out, reset it to
\* the start commit, delete new_branches and new_tags, and raise again. An
\* error of the clause itself replaces the one being handled.
cleanup(m, start_branch, start_tip) ==
    LET m1 == git_checkout([m EXCEPT !.raised = ""], start_branch)
        m2 == IF m1.raised # "" THEN m1 ELSE git_reset(m1, start_tip)
        m3 == DeleteBranches(m2, m.new_branches, 1)
        m4 == [m3 EXCEPT !.tags = @ \ {m.new_tags[i] :
                                          i \in 1..Len(m.new_tags)}]
    IN  IF m3.raised # "" THEN m3 ELSE Raise(m4, m.raised)

\* start_release and start_hotfix after the proposed version is known:
\* upstream is develop or master, debian its packaging branch.
StartBranches(kind, version, upstream, debian, bump_upstream) ==
    LET upstream_branch == kind \o <<"-">> \o version
        debian_branch == S_debian \o <<"-">> \o upstream_branch
    IN  <<Do("branch", upstream_branch, upstream),
          Do("checkout", upstream_branch, <<>>),
          Do("bump_version", version \o S_rc \o <<"1">>, <<>>),
          Do("checkout", debian, <<>>),
          Do("branch", debian_branch, debian),
          Do("checkout", upstream_branch, <<>>),
          Do("checkout", debian, <<>>)>>
        \o (IF bump_upstream
            THEN <<Do("checkout", upstream, <<>>),
                   Do("bump_version", version \o S_next, <<>>)>>
            ELSE <<>>)
        \o <<Do("checkout", upstream_branch, <<>>)>>

\* GitManager.start_release, no version given
start_release(m) ==
    <<Do("checkout", S_develop, <<>>)>>
    \o (IF S_develop \notin DOMAIN m.branches THEN <<>>
        ELSE LET develop_version == m.branches[S_develop].version
                 version == get_release_version(develop_version)
             IN  IF version.status # "ok"
                 THEN <<Do("raise", version.err, <<>>)>>
                 ELSE StartBranches(S_release, version.v, S_develop,
                                    S_debian_develop, TRUE))

\* GitManager.start_hotfix, no version given
start_hotfix(m) ==
    <<Do("checkout", S_master, <<>>)>>
    \o (IF S_master \notin DOMAIN m.branches THEN <<>>
        ELSE LET version == get_hotfix_version(m.branches[S_master].version)
             IN  IF version.status # "ok"
                 THEN <<Do("raise", version.err, <<>>)>>
                 ELSE StartBranches(S_hotfix, version.v, S_master,
                                    S_debian, FALSE))

\* GitManager.start_feature
start_feature(feature_name) ==
    LET feature_upstream == S_feature \o <<"-">> \o feature_name
        feature_debian == S_debian \o <<"-">> \o feature_upstream
    IN  <<Do("branch", feature_upstream, S_develop),
          Do("branch", feature_debian, S_debian_develop)>>

\* GitManager.end_feature, every question answered by its default
end_feature(m, feature_name) ==
    LET feature_upstream == S_feature \o <<"-">> \o feature_name
        feature_debian == S_debian \o <<"-">> \o feature_upstream
        has_debian == feature_debian \in DOMAIN m.branches
    IN  IF feature_upstream \notin DOMAIN m.branches
        THEN <<Do("raise", "ValueError", <<>>)>>
        ELSE <<Do("edit_changelog", feature_upstream, S_develop),
               Do("merge", S_develop, feature_upstream)>>
             \o (IF has_debian
                 THEN <<Do("merge", S_debian_develop, feature_debian)>>
                 ELSE <<>>)
             \o <<Do("checkout", S_develop, <<>>),
                  Do("branch -D", feature_upstream, <<>>)>>
             \o (IF has_debian
                 THEN <<Do("branch -D", feature_debian, <<>>)>>
                 ELSE <<>>)

\* GitManager.end_hotfix, every question answered by its default
end_hotfix(version) ==
    LET upstream_branch == S_hotfix \o <<"-">> \o version
        debian_branch == S_debian \o <<"-">> \o upstream_branch
    IN  <<Do("merge", S_master, upstream_branch),
          Do("merge", S_debian, debian_branch),
          Do("checkout", S_master, <<>>),
          Do("branch -D", upstream_branch, <<>>),
          Do("branch -D", debian_branch, <<>>)>>

\* The GitManager of the command about to run.
Manager == GitManager(repo, tags, mode, codename)

\* How a command ends: with the exception it raises, or normally.
Ended(m) == IF m.raised # "" THEN Failure(m.raised) ELSE Success(<<>>)

\* A command under @cleanup: its statements, then the except clause if one
\* of them raised.
Wrapped(steps, fail) ==
    LET m == RunSteps(Manager, steps, 1, fail)
    IN  IF m.raised = "" THEN m
        ELSE cleanup(m, repo.active, repo.branches[repo.active])

\* The repository a command leaves behind, with the one it found: the
\* state after GitManager m has run the command.
Leave(call, m) ==
    /\ repo' = [branches |-> m.branches, active |-> m.active,
                next |-> m.next, commands |-> repo.commands + 1,
                start |-> [branches |-> repo.branches,
                           active |-> repo.active, tags |-> tags]]
    /\ tags' = m.tags
    /\ base_version' = m.branches[m.active].version
    /\ vcs_info' = [vcs_info EXCEPT !.branch = m.active]
    /\ result' = Outcome(call, Ended(m), <<>>)
    /\ UNCHANGED <<mode, codename, built, head, builds>>

\* The statement a command is interrupted at, 0 for none.
MaxStatements == 11

FeatureNames == {S_x}

\* The versions end_hotfix is given.
HotfixVersions == {S_0_1_1, <<"0", ".", "1", ".", "2">>}

\* The versions bump_version is given.
BumpVersions ==
    {S_0_1, S_0_1 \o S_next, S_0_1rc1, S_0_1_1 \o S_rc \o <<"1">>}

StartRelease ==
    \E fail \in 0..MaxStatements :
        /\ repo.commands < MaxCommands
        /\ fail <= Len(start_release(Manager))
        /\ \E m \in {Wrapped(start_release(Manager), fail)} :
               Leave("start_release", m)

StartHotfix ==
    \E fail \in 0..MaxStatements :
        /\ repo.commands < MaxCommands
        /\ fail <= Len(start_hotfix(Manager))
        /\ \E m \in {Wrapped(start_hotfix(Manager), fail)} :
               Leave("start_hotfix", m)

StartFeature ==
    \E feature_name \in FeatureNames, fail \in 0..MaxStatements :
        /\ repo.commands < MaxCommands
        /\ fail <= Len(start_feature(feature_name))
        /\ \E m \in {Wrapped(start_feature(feature_name), fail)} :
               Leave("start_feature", m)

EndFeature ==
    \E feature_name \in FeatureNames, fail \in 0..MaxStatements :
        /\ repo.commands < MaxCommands
        /\ fail <= Len(end_feature(Manager, feature_name))
        /\ \E m \in {Wrapped(end_feature(Manager, feature_name), fail)} :
               Leave("end_feature", m)

EndHotfix ==
    \E version \in HotfixVersions, fail \in 0..MaxStatements :
        /\ repo.commands < MaxCommands
        /\ fail <= Len(end_hotfix(version))
        /\ \E m \in {Wrapped(end_hotfix(version), fail)} :
               Leave("end_hotfix", m)

\* devflow-bump-version: bump_version on the checked-out branch.
BumpVersionCall ==
    \E new_version \in BumpVersions :
        /\ repo.commands < MaxCommands
        /\ \E m \in {bump_version(Manager, new_version)} :
               Leave("bump_version", m)

\* The version files of develop and of master when the flow starts.
DevelopBases ==
    {S_0_1 \o S_next, S_0_1 \o S_dev, S_0_1 \o S_dotdev, S_0_1, S_0_1rc1}

MasterBases == {S_0_1, S_0_1_1}

\* A repository with develop and master, with or without their packaging
\* branches, one of the two checked out.
Repositories ==
    {[branches |->
          (S_develop :> Tip(1, d, d)) @@ (S_master :> Tip(2, m, m))
            @@ (IF packaged
                THEN (S_debian_develop :> Tip(3, d, d))
                       @@ (S_debian :> Tip(4, m, m))
                ELSE [b \in {} |-> 0]),
      active |-> a, next |-> 5, commands |-> 0,
      start |-> [branches |-> [b \in {} |-> 0], active |-> <<>>,
                 tags |-> {}]] :
         d \in DevelopBases, m \in MasterBases,
         a \in {S_develop, S_master}, packaged \in BOOLEAN}

InitRepo ==
    /\ repo \in Repositories
    /\ vcs_info = [branch |-> repo.active, revno |-> 1, revid |-> S_abc1234]
    /\ base_version = repo.branches[repo.active].version
    /\ mode \in {Unset, "release"}
    /\ codename \in Codenames
    /\ tags = {}
    /\ result = NotCalled
    /\ built = NoBuild
    /\ head = NoCommit
    /\ builds = <<>>

NextRepo ==
    \/ StartRelease
    \/ StartHotfix
    \/ StartFeature
    \/ EndFeature
    \/ EndHotfix
    \/ BumpVersionCall

\* The flow's commands and devflow-bump-version on one repository, one
\* after the other. end_release is not among them: it calls
\* versioning._bump_version, which versioning.py does not define.
SpecRepo == InitRepo /\ [][NextRepo]_vars

\* ------------------------------------------------------------------------
\* Properties: vocabulary
\* ------------------------------------------------------------------------

Called == result.call # "none"

Derived == Called /\ result.status = "ok"

Failed == Called /\ result.status = "error" /\ result.v = <<>>

IsNumeral(d) == d # <<>> /\ AllDigits(d)

\* The number a decimal numeral denotes.
RECURSIVE DecimalValue(_)
DecimalValue(d) ==
    IF d = <<>> THEN 0
    ELSE 10 * DecimalValue(Take(d, Len(d) - 1)) + DigitValue(d[Len(d)])

\* s is numerals separated by single dots, at least two of them:
\* the language of VERSION_RE.
IsDottedNumber(s) ==
    LET ends == {0} \cup {i \in 1..Len(s) : s[i] = "."} \cup {Len(s) + 1}
    IN  /\ Cardinality(ends) >= 3
        /\ \A i \in ends : \A j \in ends :
               (i < j /\ \A k \in ends : ~(i < k /\ k < j))
                   => IsNumeral(SubSeq(s, i + 1, j - 1))

\* s is a concatenation of release-candidate marks rc<N>, N without a
\* leading zero: the language of (RC_RE)*.
RECURSIVE IsRcMarks(_)
IsRcMarks(s) ==
    \/ s = <<>>
    \/ \E k \in 3..Len(s) :
           /\ Take(s, 2) = S_rc
           /\ IsNumeral(SubSeq(s, 3, k)) /\ s[3] # "0"
           /\ IsRcMarks(Drop(s, k))

\* The ways to read base as a dotted number followed by what the pattern
\* of branch type t allows after it: the lengths of the dotted number.
Readings(t, base) ==
    {k \in 0..Len(base) :
        LET num == Take(base, k)
            rest == Drop(base, k)
        IN  /\ IsDottedNumber(num)
            /\ CASE t \in {S_feature, S_develop} ->
                      rest \in {<<>>, S_next, S_dev, S_dotdev}
                 [] t = S_master -> rest = <<>>
                 [] t = S_release -> rest # <<>> /\ IsRcMarks(rest)
                 [] t = S_hotfix ->
                      /\ IsRcMarks(rest)
                      /\ \E j \in 1..(k - 2) :
                             /\ IsDottedNumber(Take(num, j))
                             /\ num[j + 1] = "."
                             /\ IsNumeral(Drop(num, j + 1))
                             /\ num[j + 2] # "0"}

\* The base version is in the language of the branch type's pattern.
PatternAccepts(t, base) == Readings(t, base) # {}

\* The dotted number the pattern captures from an accepted base version.
Captured(t, base) == Take(base, CHOOSE k \in Readings(t, base) : TRUE)

\* The name matches ^(feature|develop|release|master|hotfix)(-.*)?$
MatchesBranchRe(name) ==
    \E t \in BranchTypeNames : name = t \/ StartsWith(name, t \o <<"-">>)

\* The alternative of that pattern a matching name starts with.
TypeOfName(name) ==
    CHOOSE t \in BranchTypeNames : name = t \/ StartsWith(name, t \o <<"-">>)

FirstDash(s) == CHOOSE i \in 1..Len(s) : s[i] = "-" /\ ~Contains(Take(s, i - 1), "-")

\* Everything after the first '-' of a name that has one.
Remainder(s) == Drop(s, FirstDash(s))

\* What lies between the first '-' and the second (or the end).
SecondSegment(s) ==
    LET r == Remainder(s)
    IN  IF Contains(r, "-") THEN Take(r, FirstDash(r) - 1) ELSE r

ClassificationErrors ==
    {"UnknownBranchType", "MissingVersionInBranchName",
     "MalformedVersionInBranchName"}

Normalized == normalize_branch_name(vcs_info.branch, codename)

\* ------------------------------------------------------------------------
\* Properties of one call (specification Spec)
\* ------------------------------------------------------------------------

\* C1: whenever python_version accepts its input, the result is the base
\* version verbatim in release mode, and in snapshot mode it is the base
\* version, '_', the decimal numeral of revno, '_', and revid.
C1_VersionFormat ==
    Derived =>
        /\ mode = "release" => result.v = base_version
        /\ mode = "snapshot" =>
             LET lb == Len(base_version)
                 lv == Len(result.v)
                 li == Len(vcs_info.revid)
                 d == SubSeq(result.v, lb + 2, lv - li - 1)
             IN  /\ lv >= lb + li + 3
                 /\ Take(result.v, lb) = base_version
                 /\ result.v[lb + 1] = "_"
                 /\ IsNumeral(d) /\ (Len(d) > 1 => d[1] # "0")
                 /\ DecimalValue(d) = vcs_info.revno
                 /\ result.v[lv - li] = "_"
                 /\ Drop(result.v, lv - li) = vcs_info.revid

\* A snapshot of a release candidate at commit 249 has been derived.
C1_Witness ==
    /\ Derived /\ mode = "snapshot"
    /\ vcs_info.revno = 249
    /\ result.v = <<"0", ".", "1", "r", "c", "1", "_", "2", "4", "9", "_", "a", "b", "c", "1", "2", "3", "4">>

\* C5 as stated: on branch release-<V>rc<N> with base version <V>rc<N>,
\* snapshot mode succeeds and returns <V>rc<N>_<revno>_<revid>.
C5_RcInBranchName ==
    \A n \in BaseNumbers, rc \in RcSuffixes :
        ( /\ Called /\ mode = "snapshot"
          /\ base_version = n \o rc
          /\ vcs_info.branch = S_release \o <<"-">> \o n \o rc )
        => /\ result.status = "ok"
           /\ result.v = n \o rc \o <<"_">> \o ToDecimal(vcs_info.revno)
                           \o <<"_">> \o vcs_info.revid

\* C5, amended: with base version <V>rc<N>, snapshot mode succeeds and
\* returns <V>rc<N>_<revno>_<revid> on branch release-<V>, and fails with
\* the unsuitable-base-version error on branch release-<V>rc<N>.
C5_RcInBaseVersionOnly ==
    \A n \in BaseNumbers, rc \in RcSuffixes :
        (Called /\ mode = "snapshot" /\ base_version = n \o rc) =>
            /\ vcs_info.branch = S_release \o <<"-">> \o n =>
                 /\ result.status = "ok"
                 /\ result.v = n \o rc \o <<"_">> \o ToDecimal(vcs_info.revno)
                                 \o <<"_">> \o vcs_info.revid
            /\ vcs_info.branch = S_release \o <<"-">> \o n \o rc =>
                 Failed /\ result.err = "BaseVersionMismatch"

\* Base 0.1rc1 at commit 249 abc1234 has been derived on release-0.1.
C5_Witness ==
    /\ Derived /\ mode = "snapshot"
    /\ base_version = S_0_1rc1
    /\ vcs_info = [branch |-> S_release \o <<"-">> \o S_0_1, revno |-> 249,
                   revid |-> S_abc1234]
    /\ result.v = <<"0", ".", "1", "r", "c", "1", "_", "2", "4", "9", "_", "a", "b", "c", "1", "2", "3", "4">>

\* C6: on a branch of a known type, python_version fails and returns no
\* version whenever the base version is not in the language of the type's
\* pattern, or the type is versioned and the dotted number the pattern
\* captures differs from the version in the branch name (the segment after
\* the first '-' of the normalized name).
C6_UnsuitableBaseFails ==
    LET t == get_branch_type(vcs_info.branch, codename)
    IN  ( /\ Called
          /\ t \in BranchTypeNames
          /\ \/ ~PatternAccepts(t, base_version)
             \/ /\ t \in {S_release, S_hotfix}
                /\ \/ ~Contains(Normalized, "-")
                   \/ Captured(t, base_version) # SecondSegment(Normalized) )
        => Failed

\* Base 0.10rc1 has been refused on branch release-0.1: the pattern accepts
\* it, the captured 0.10 is not the branch's 0.1.
C6_Witness ==
    /\ Failed /\ result.err = "BaseVersionMismatch"
    /\ base_version = S_0_10 \o S_rc \o <<"1">>
    /\ vcs_info.branch = S_release \o <<"-">> \o S_0_1
    /\ PatternAccepts(S_release, base_version)

\* The branch/mode combinations of python_version's table.
DocumentedBuilds ==
    { <<S_feature, "snapshot">>, <<S_develop, "snapshot">>,
      <<S_release, "snapshot">>, <<S_release, "release">>,
      <<S_hotfix, "snapshot">>, <<S_hotfix, "release">>,
      <<S_master, "release">> }

\* C7 as stated: python_version yields a version only for the branch/mode
\* combinations of its table; release mode on feature and develop and
\* snapshot mode on master never yield one.
C7_OnlyDocumentedBuilds ==
    (Derived /\ MatchesBranchRe(vcs_info.branch))
        => <<TypeOfName(vcs_info.branch), mode>> \in DocumentedBuilds

\* C8 as stated: every branch name matching
\* ^(feature|develop|release|master|hotfix)(-.*)?$ is classified without
\* any error of the classifier.
C8_MatchingNamesClassify ==
    (Called /\ MatchesBranchRe(vcs_info.branch))
        => result.err \notin ClassificationErrors

\* C8, amended: every matching branch name gets the type it starts with, so
\* never the unknown-branch-type error; feature, develop and master names
\* classify without any error, and release and hotfix names classify
\* without error exactly when a segment follows the first '-' and starts
\* with a dotted number.
C8_MatchingNamesTyped ==
    (Called /\ MatchesBranchRe(vcs_info.branch)) =>
        LET name == vcs_info.branch
            t == TypeOfName(name)
            versionLike ==
                /\ Contains(name, "-")
                /\ \E k \in 1..Len(SecondSegment(name)) :
                       IsDottedNumber(Take(SecondSegment(name), k))
        IN  /\ result.err # "UnknownBranchType"
            /\ t \in {S_feature, S_develop, S_master}
                 => result.err \notin ClassificationErrors
            /\ t \in {S_release, S_hotfix}
                 => (result.err \in ClassificationErrors <=> ~versionLike)

\* A feature branch has been classified and its snapshot derived, and so
\* has a release branch whose name carries more than the version.
C8_Witness ==
    /\ Derived
    /\ vcs_info.branch \in
         { S_feature \o <<"-">> \o S_x \o <<"-">> \o S_0_1,
           S_release \o <<"-">> \o S_0_1 \o <<"-">> \o S_x }

\* C9 as stated: every branch name that does not match the pattern is
\* rejected with the unknown-branch-type error.
C9_OtherNamesRejected ==
    (Called /\ ~MatchesBranchRe(vcs_info.branch))
        => Failed /\ result.err = "UnknownBranchType"

\* The names the normalization maps onto the pattern: debian, the codename
\* and debian-<codename>, and a matching name behind debian- or
\* debian-<codename>-.
NormalizesToMatch(name, cn) ==
    LET deb == S_debian \o <<"-">>
        debcn == S_debian \o <<"-">> \o cn \o <<"-">>
    IN  \/ name \in {S_debian, cn, S_debian \o <<"-">> \o cn}
        \/ MatchesBranchRe(name)
        \/ StartsWith(name, debcn) /\ MatchesBranchRe(Drop(name, Len(debcn)))
        \/ /\ StartsWith(name, deb) /\ ~StartsWith(name, debcn)
           /\ MatchesBranchRe(Drop(name, Len(deb)))

\* C9, amended: every branch name whose normalized form does not match the
\* pattern is rejected with the unknown-branch-type error, and no other
\* name is: the names debian, <codename> and debian-<codename> and the
\* matching names behind a debian- or debian-<codename>- prefix are
\* classified.
C9_UnnormalizableNamesRejected ==
    Called =>
        ( ~NormalizesToMatch(vcs_info.branch, codename)
            <=> (Failed /\ result.err = "UnknownBranchType") )

\* A name that starts like a type but is none has been rejected.
C9_Witness ==
    /\ Failed /\ result.err = "UnknownBranchType"
    /\ vcs_info.branch = S_debian \o <<"-">> \o S_feature \o <<"s">>
                           \o <<"-">> \o S_0_1

\* C10 as stated: on a versioned branch the embedded version is the whole
\* remainder of the normalized name after the first '-' (so a base version
\* is accepted only if its captured number equals that remainder), and the
\* call fails when the remainder is absent or empty.
C10_WholeRemainder ==
    LET t == get_branch_type(vcs_info.branch, codename)
    IN  (Called /\ t \in {S_release, S_hotfix}) =>
            /\ Derived =>
                 /\ Contains(Normalized, "-")
                 /\ Captured(t, base_version) = Remainder(Normalized)
            /\ (~Contains(Normalized, "-") \/ Remainder(Normalized) = <<>>)
                 => Failed

\* C10, amended: on a versioned branch the embedded version is the segment
\* of the normalized name between its first and its second '-' (the whole
\* remainder only when that holds no '-'): a base version the type's
\* pattern accepts is derived in either build mode exactly when its
\* captured number equals that segment; and the call fails with a
\* classification error when the remainder is absent or empty.
C10_SecondSegment ==
    LET t == get_branch_type(vcs_info.branch, codename)
    IN  (Called /\ t \in {S_release, S_hotfix}) =>
            /\ (PatternAccepts(t, base_version) /\ mode \in BuildModes) =>
                 ( Derived <=>
                     /\ Contains(Normalized, "-")
                     /\ Captured(t, base_version) = SecondSegment(Normalized) )
            /\ (~Contains(Normalized, "-") \/ Remainder(Normalized) = <<>>)
                 => Failed /\ result.err \in ClassificationErrors

\* Base 0.1rc1 has been derived on release-0.1-x, whose remainder 0.1-x is
\* not the captured 0.1.
C10_Witness ==
    /\ Derived
    /\ base_version = S_0_1rc1
    /\ vcs_info.branch = S_release \o <<"-">> \o S_0_1 \o <<"-">> \o S_x

\* ------------------------------------------------------------------------
\* Properties of two builds (specification SpecFlow)
\* ------------------------------------------------------------------------

\* The build just made, in the shape of the one kept in built.
Current ==
    [branch |-> vcs_info.branch, base_version |-> base_version,
     mode |-> mode, v |-> result.v, deb |-> result.deb]

\* An earlier build and the build just made.
TwoBuilds == built # NoBuild /\ Derived

\* The place of a build of base number n in the chain of C2, 0 when it has
\* none: rcN snapshots, rcN, snapshots of n, n, next snapshots, next,
\* n.1 snapshots, n.1.
ChainRank(b, n) ==
    LET suf == Drop(b.base_version, Len(n))
        snap == IF b.mode = "snapshot" THEN 0 ELSE 1
    IN  IF ~StartsWith(b.base_version, n) THEN 0
        ELSE IF suf \in RcSuffixes THEN 1 + snap
        ELSE IF suf = <<>> THEN 3 + snap
        ELSE IF suf = S_next THEN 5 + snap
        ELSE IF suf = <<".", "1">> THEN 7 + snap
        ELSE 0

\* C2 as stated: for a base number X.Y the versions python_version produces
\* sort as X.YrcN snapshots < X.YrcN (of the same N) < X.Y snapshots < X.Y
\* < X.Ynext snapshots < X.Ynext < X.Y.1 snapshots < X.Y.1, and every
\* snapshot sorts strictly below the version it is a snapshot of.
C2_VersionChain ==
    TwoBuilds =>
        /\ \A n \in BaseNumbers :
               ( /\ ChainRank(built, n) # 0
                 /\ ChainRank(built, n) < ChainRank(Current, n)
                 /\ (ChainRank(Current, n) = 2
                       => built.base_version = base_version) )
               => PyLess(built.v, Current.v)
        /\ ( /\ built.base_version = base_version
             /\ built.mode = "snapshot" /\ mode = "release" )
           => PyLess(built.v, Current.v)

\* C3 as stated: if a < b as Python versions then the Debian version of a
\* is below the Debian version of b, for any two versions python_version
\* produces.
C3_DebianOrderPreserved ==
    (TwoBuilds /\ PyLess(built.v, Current.v))
        => DebLess(built.deb, Current.deb)

\* The three derivations of C4 for base number n, with the base version the
\* release branch is given: 1 the release branch's snapshot, 2 its release,
\* 3 the snapshot of develop at n next. 0 for any other build.
Step(b, n, releaseBases) ==
    IF /\ b.branch = S_release \o <<"-">> \o n
       /\ b.base_version \in releaseBases
    THEN (IF b.mode = "snapshot" THEN 1 ELSE 2)
    ELSE IF /\ b.branch = S_develop
            /\ b.base_version = n \o S_next
            /\ b.mode = "snapshot"
    THEN 3
    ELSE 0

\* The three derivations succeed, and of two of them the earlier step is
\* the lower version (steps 1 and 2 taken at the same base version).
StepsAscend(n, releaseBases) ==
    /\ (Called /\ Step(Current, n, releaseBases) # 0) => Derived
    /\ TwoBuilds =>
         LET p == Step(built, n, releaseBases)
             q == Step(Current, n, releaseBases)
             comparable ==
                 /\ p # 0 /\ q # 0 /\ p # q
                 /\ ({p, q} = {1, 2} => built.base_version = base_version)
         IN  /\ (comparable /\ p < q) => PyLess(built.v, Current.v)
             /\ (comparable /\ q < p) => PyLess(Current.v, built.v)

\* C4 as stated: python_version succeeds for (X.Y, release-X.Y, snapshot),
\* (X.Y, release-X.Y, release) and (X.Ynext, develop, snapshot), and the
\* three results are strictly ascending in that order.
C4_PlainBaseOnRelease == \A n \in BaseNumbers : StepsAscend(n, {n})

\* C4, amended: on the release branch the base version is a release
\* candidate: for every rc number N, python_version succeeds for
\* (X.YrcN, release-X.Y, snapshot), (X.YrcN, release-X.Y, release) and
\* (X.Ynext, develop, snapshot), and the three results are strictly
\* ascending in that order.
C4_RcBaseOnRelease ==
    \A n \in BaseNumbers :
        StepsAscend(n, {n \o rc : rc \in RcSuffixes})

\* The release of a release candidate was built, and now the snapshot of
\* develop at the next version.
C4_Witness ==
    /\ TwoBuilds
    /\ \E n \in BaseNumbers :
           /\ Step(built, n, {n \o rc : rc \in RcSuffixes}) = 2
           /\ Step(Current, n, {n \o rc : rc \in RcSuffixes}) = 3

\* ------------------------------------------------------------------------
\* Properties of the normalization (specification Spec)
\* ------------------------------------------------------------------------

EndsWith(s, p) == Len(s) >= Len(p) /\ Drop(s, Len(s) - Len(p)) = p

\* What the name of the Debian side of an upstream branch normalizes to:
\* "debian" and "debian-<codename>" to master, "debian-B" and
\* "debian-<codename>-B" to B, and "debian-B-<codename>" to B, with the
\* codename still behind it if kept.
DebianNamesNormalize(kept) ==
    Called =>
        LET name == vcs_info.branch
            deb == S_debian \o <<"-">>
            debcn == deb \o codename \o <<"-">>
            suf == <<"-">> \o codename
            behind == Drop(name, Len(deb))
            behindcn == Drop(name, Len(debcn))
            between == Take(behind, Len(behind) - Len(suf))
        IN  /\ name \in {S_debian, deb \o codename} => Normalized = S_master
            /\ (StartsWith(name, debcn) /\ MatchesBranchRe(behindcn))
                 => Normalized = behindcn
            /\ ( /\ StartsWith(name, deb) /\ MatchesBranchRe(behind)
                 /\ ~EndsWith(behind, suf) )
                 => Normalized = behind
            /\ ( /\ StartsWith(name, deb) /\ EndsWith(behind, suf)
                 /\ MatchesBranchRe(between) )
                 => Normalized = (IF kept THEN between \o suf ELSE between)

\* C11 as stated: "debian" and "debian-<codename>" normalize to master, and
\* for every upstream branch name B, "debian-B", "debian-<codename>-B" and
\* "debian-B-<codename>" all normalize to exactly B.
C11_CodenameSuffixStripped == DebianNamesNormalize(FALSE)

\* C11, amended: "debian" and "debian-<codename>" normalize to master, and
\* for every upstream branch name B, "debian-B" and "debian-<codename>-B"
\* normalize to exactly B, while "debian-B-<codename>" normalizes to
\* "B-<codename>": only prefixes are stripped.
C11_PrefixesStripped == DebianNamesNormalize(TRUE)

\* The Debian name of release-0.1 that get_debian_branch makes, with the
\* codename behind it, has been normalized.
C11_Witness ==
    /\ Called
    /\ vcs_info.branch = S_debian \o <<"-">> \o S_release \o <<"-">> \o S_0_1
                           \o <<"-">> \o S_sid
    /\ Normalized = S_release \o <<"-">> \o S_0_1 \o <<"-">> \o S_sid

\* ------------------------------------------------------------------------
\* Properties of the Debian mapper and of package builds (SpecPkg)
\* ------------------------------------------------------------------------

\* A Debian version has been computed, by debian_version or by autopkg.
Packaged == Derived /\ result.call \in {"debian_version", "autopkg"}

\* The repository's tags when that version was computed.
TagsSeen ==
    IF result.call = "autopkg" THEN builds[Len(builds)].tags ELSE tags

\* p read once from the left: '~' for every '_', and '~' put before every
\* "rc".
RECURSIVE TildeForm(_)
TildeForm(p) ==
    IF p = <<>> THEN <<>>
    ELSE IF StartsWith(p, S_rc) THEN <<"~">> \o S_rc \o TildeForm(Drop(p, 2))
    ELSE IF p[1] = "_" THEN <<"~">> \o TildeForm(Tail(p))
    ELSE <<p[1]>> \o TildeForm(Tail(p))

\* The Debian version of p with every '~' removed.
Stem(p) == SelectSeq(TildeForm(p), LAMBDA c : c # "~")

\* The tags "debian/<stem>-<n><cn>", n a numeral.
IsRevisionTag(t, stem, cn) ==
    LET front == S_debianslash \o stem \o <<"-">>
    IN  /\ StartsWith(t, front) /\ EndsWith(t, cn)
        /\ Len(t) > Len(front) + Len(cn)
        /\ IsNumeral(SubSeq(t, Len(front) + 1, Len(t) - Len(cn)))

\* The smallest n >= 1 whose tag is not among T.
LeastAbsent(stem, cn, T) ==
    CHOOSE n \in 1..(Cardinality(T) + 1) :
        /\ DebianTag(stem, n, cn) \notin T
        /\ \A i \in 1..(n - 1) : DebianTag(stem, i, cn) \in T

\* The revision a Debian version ends with: the number between its last
\* '-' and the '~' after it.
RevisionOf(deb) ==
    LET r == DebRevision(deb)
        k == CHOOSE i \in 1..Len(r) : r[i] = "~" /\ ~Contains(Take(r, i - 1), "~")
    IN  DecimalValue(Take(r, k - 1))

\* C12: the Debian version of p is "<t>-<n>~<codename>", t being p with
\* every '_' replaced by '~' and every "rc" by "~rc", and n the revision
\* the tag scan chooses.
C12_DebianForm ==
    Packaged =>
        result.deb =
            TildeForm(result.v) \o <<"-">>
              \o ToDecimal(LeastAbsent(Stem(result.v), codename, TagsSeen))
              \o <<"~">> \o codename

\* With no tags, 0.1rc1_249_abc1234 has been mapped to
\* 0.1~rc1~249~abc1234-1~sid.
C12_Witness ==
    /\ Packaged /\ TagsSeen = {}
    /\ result.v = S_0_1rc1 \o <<"_", "2", "4", "9", "_">> \o S_abc1234
    /\ result.deb = <<"0", ".", "1", "~", "r", "c", "1", "~", "2", "4", "9", "~">>
                      \o S_abc1234 \o <<"-", "1", "~">> \o S_sid

\* C13: the revision is the smallest n >= 1 whose tag
\* "debian/<stem>-<n><codename>" is not among the repository's tags, stem
\* being the Debian version without its '~'; the tags of 1..n-1 are all
\* present, and adding or removing a tag of another stem or codename does
\* not change the revision.
C13_SmallestAbsentRevision ==
    Packaged =>
        LET n == RevisionOf(result.deb)
            stem == Stem(result.v)
            version == TildeForm(result.v)
            foreign == {t \in InitialTags \cup tags :
                            ~IsRevisionTag(t, stem, codename)}
        IN  /\ n >= 1
            /\ DebianTag(stem, n, codename) \notin TagsSeen
            /\ \A i \in 1..(n - 1) : DebianTag(stem, i, codename) \in TagsSeen
            /\ \A t \in foreign :
                   /\ get_revision(version, codename, TagsSeen \cup {t}) = n
                   /\ get_revision(version, codename, TagsSeen \ {t}) = n

\* 0.1rc1 got revision 2 in a repository that held debian/0.1rc1-1sid and a
\* tag of another distribution.
C13_Witness ==
    /\ Packaged /\ result.v = S_0_1rc1
    /\ RevisionOf(result.deb) = 2
    /\ DebianTag(S_0_1rc1, 1, S_sid) \in TagsSeen
    /\ DebianTag(S_0_1, 1, S_x) \in TagsSeen

\* The release builds of version v among the first i builds.
ReleaseBuildsOf(v, i) ==
    {j \in 1..i : builds[j].mode = "release" /\ builds[j].v = v}

IsCanonical(d) == IsNumeral(d) /\ (Len(d) > 1 => d[1] # "0")

\* s is k numbers without leading zeros, separated by dots.
IsNumbers(s, k) ==
    /\ IsDottedNumber(s)
    /\ Len(Split(s, ".")) = k
    /\ \A i \in 1..k : IsCanonical(Split(s, ".")[i])

\* The numeral of the number after the one d denotes.
Succ(d) == ToDecimal(DecimalValue(d) + 1)

\* s without its last n characters.
ButLast(s, n) == Take(s, Len(s) - n)

\* No beginning of s is two numbers separated by a dot.
FewNumbers(s) == \A k \in 1..Len(s) : ~IsDottedNumber(Take(s, k))

\* C15: get_release_version returns V for V, Vdev and V.dev, V any dotted
\* number, and X.(Y+1) for X.Ynext.
C15_ReleaseVersion ==
    result.call = "get_release_version" =>
        /\ \A d \in {<<>>, S_dev, S_dotdev} :
               ( /\ EndsWith(base_version, d)
                 /\ IsDottedNumber(ButLast(base_version, Len(d))) )
               => Derived /\ result.v = ButLast(base_version, Len(d))
        /\ ( /\ EndsWith(base_version, S_next)
             /\ IsNumbers(ButLast(base_version, 4), 2) )
           => LET parts == Split(ButLast(base_version, 4), ".")
              IN  /\ Derived
                  /\ result.v = parts[1] \o <<".">> \o Succ(parts[2])

\* 0.19next has given 0.20.
C15_Witness ==
    /\ result.call = "get_release_version"
    /\ base_version = <<"0", ".", "1", "9">> \o S_next
    /\ result.v = <<"0", ".", "2", "0">>

\* What get_develop_version_from_release makes of X.Y: X.(Y+1) and the
\* given suffix.
DevelopVersionIs(suffix) ==
    ( /\ result.call = "get_develop_version_from_release"
      /\ IsNumbers(base_version, 2) )
    => LET parts == Split(base_version, ".")
       IN  /\ Derived
           /\ result.v = parts[1] \o <<".">> \o Succ(parts[2]) \o suffix

\* C16 as stated: get_develop_version_from_release maps X.Y to X.(Y+1)next.
C16_NextAppended == DevelopVersionIs(S_next)

\* C16, amended: get_develop_version_from_release maps X.Y to X.(Y+1)dev.
C16_DevAppended == DevelopVersionIs(S_dev)

\* 5.99 has given 5.100dev.
C16_Witness ==
    /\ result.call = "get_develop_version_from_release"
    /\ base_version = <<"5", ".", "9", "9">>
    /\ result.v = <<"5", ".", "1", "0", "0">> \o S_dev

\* C17: get_hotfix_version maps X.Y to X.Y.1 and X.Y.Z to X.Y.(Z+1).
C17_HotfixVersion ==
    result.call = "get_hotfix_version" =>
        /\ IsNumbers(base_version, 2)
             => Derived /\ result.v = base_version \o <<".", "1">>
        /\ IsNumbers(base_version, 3)
             => LET parts == Split(base_version, ".")
                IN  /\ Derived
                    /\ result.v = parts[1] \o <<".">> \o parts[2] \o <<".">>
                                    \o Succ(parts[3])

\* 0.14 has given 0.14.1.
C17_Witness ==
    /\ result.call = "get_hotfix_version"
    /\ base_version = <<"0", ".", "1", "4">>
    /\ result.v = <<"0", ".", "1", "4", ".", "1">>

FlowCalls ==
    {"get_release_version", "get_develop_version_from_release",
     "get_hotfix_version"}

\* C18 as stated: each of the three functions raises an error for every
\* input with fewer than two dot-separated numbers in front.
C18_AllReject ==
    (result.call \in FlowCalls /\ FewNumbers(base_version)) => Failed

\* C18, amended: get_develop_version_from_release and get_hotfix_version
\* raise an error for every such input; get_release_version raises one
\* exactly when the input contains "next", and returns a version otherwise.
C18_ReleaseRejectsNextOnly ==
    (result.call \in FlowCalls /\ FewNumbers(base_version)) =>
        IF result.call = "get_release_version"
        THEN (Failed <=> HasSubstring(base_version, S_next))
               /\ (Derived <=> ~HasSubstring(base_version, S_next))
        ELSE Failed

\* 5next has been refused by get_release_version.
C18_Witness ==
    /\ result.call = "get_release_version" /\ Failed
    /\ base_version = <<"5">> \o S_next

\* ------------------------------------------------------------------------
\* Properties of the commit id (SpecCommit)
\* ------------------------------------------------------------------------

\* The first seven characters of a commit's name.
Short7(h) == Take(h, 7)

\* When get_commit_id returns the two parents' short ids joined by '_' and
\* when the commit's own short id, given which branches count as debian.
CommitIdFor(debian_branch) ==
    result.call = "get_commit_id" =>
        LET n == Len(head.parents)
        IN  /\ (n = 2 /\ debian_branch)
                 => /\ Derived
                    /\ result.v = Short7(head.parents[1]) \o <<"_">>
                                    \o Short7(head.parents[2])
            /\ (n = 1 \/ (n = 2 /\ ~debian_branch))
                 => Derived /\ result.v = Short7(head.hexsha)

\* C19 as stated: the parents' ids are joined exactly when the commit has
\* two parents and the current branch's name starts with "debian";
\* a one-parent commit, and a two-parent commit elsewhere, gets its own id.
C19_NameStartsWithDebian == CommitIdFor(StartsWith(vcs_info.branch, S_debian))

\* C19, amended: the parents' ids are joined exactly when the commit has
\* two parents and the current branch is named "debian" or its name starts
\* with "debian-"; a one-parent commit, and a two-parent commit on any other
\* branch ("debianx" too), gets its own id.
C19_DebianOrDebianDash ==
    CommitIdFor(\/ vcs_info.branch = S_debian
                \/ StartsWith(vcs_info.branch, S_debian \o <<"-">>))

\* A merge commit on debian-release-0.1 got abc1234_1234abc.
C19_Witness ==
    /\ result.call = "get_commit_id"
    /\ vcs_info.branch = S_debian \o <<"-">> \o S_release \o <<"-">> \o S_0_1
    /\ Len(head.parents) = 2
    /\ result.v = S_abc1234 \o <<"_">> \o S_1234abc

\* C20 as stated: get_commit_id fails exactly when the commit has more than
\* two parents; a commit with zero, one or two parents yields an id.
C20_FailsAboveTwoParents ==
    result.call = "get_commit_id" =>
        /\ Failed <=> Len(head.parents) > 2
        /\ Len(head.parents) <= 2 => Derived /\ result.v # <<>>

\* ------------------------------------------------------------------------
\* Properties of the transform and of snapshots (SpecFlow, SpecSnapshots)
\* ------------------------------------------------------------------------

\* C21: the textual transform is one-to-one on the versions python_version
\* produces: two builds with different Python versions have different
\* Debian upstream versions.
C21_TransformOneToOne ==
    (TwoBuilds /\ built.v # Current.v)
        => DebUpstream(built.deb) # DebUpstream(Current.deb)

\* Two snapshots of a release candidate that differ in the commit only.
C21_Witness ==
    /\ TwoBuilds
    /\ built.v # Current.v
    /\ built.base_version = base_version
    /\ HasSubstring(base_version, S_rc)
    /\ built.mode = "snapshot" /\ mode = "snapshot"

\* The commit count in the snapshot version v of base version base.
RevnoIn(v, base) == DecimalValue(Split(Drop(v, Len(base) + 1), "_")[1])

\* An earlier snapshot and the snapshot just built, of one base version.
TwoSnapshots ==
    /\ TwoBuilds
    /\ built.base_version = base_version
    /\ built.mode = "snapshot" /\ mode = "snapshot"

Scanning == result.call = "get_revision" /\ result.status = "scanning"

Scanned == result.call = "get_revision" /\ result.status = "ok"

\* The tag of revision n of the version being scanned for.
SlotTag(n) ==
    DebianTag(SelectSeq(result.deb, LAMBDA c : c # "~"), n, codename)

\* While the scan runs, and when it has returned, every revision below
\* minor is taken and minor is at most the number of tags plus one; it
\* returns at a free revision.
ScanWithinTags ==
    (Scanning \/ Scanned) =>
        LET minor == DecimalValue(result.v)
        IN  /\ minor >= 1
            /\ minor <= Cardinality(tags) + 1
            /\ \A i \in 1..(minor - 1) : SlotTag(i) \in tags
            /\ Scanned => SlotTag(minor) \notin tags

\* C23: the tag scan of get_revision terminates for every set of tags: it
\* returns at the first free revision, having passed taken revisions only,
\* with a value of at most the number of tags plus one.
C23_ScanTerminates == []ScanWithinTags /\ (Scanning ~> Scanned)

\* The scan for 0.1 returned 3 where debian/0.1-1sid and debian/0.1-2sid
\* were among five tags.
C23_Witness ==
    /\ Scanned
    /\ result.deb = S_0_1
    /\ result.v = <<"3">>
    /\ Cardinality(tags) = 5

\* ------------------------------------------------------------------------
\* Properties of the callers of the classifier (SpecBranches)
\* ------------------------------------------------------------------------

\* The type python_version takes the branch to have.
TypeOfBranch == get_branch_type(vcs_info.branch, codename)

\* C25 as stated: with no DEVFLOW_BUILD_MODE, get_build_mode raises its
\* unknown-branch error for every branch whose type python_version does
\* not know.
C25_ModesAgreeOnUnknown ==
    (result.call = "get_build_mode" /\ mode = Unset
       /\ TypeOfBranch \notin BranchTypeNames)
        => Failed /\ result.err = "MalformedBranchName"

\* C26 as stated: the name autopkg takes for the upstream branch
\* (undebianize) is the name the deriver normalizes the branch to.
C26_UndebianizeIsNormalize ==
    result.call = "undebianize" =>
        /\ Derived => result.v = Normalized
        /\ Failed => TypeOfBranch \notin BranchTypeNames

\* The modes the branch type named t builds.
AllowedModes(t) ==
    {m \in BuildModes :
        \/ m = "snapshot" /\ BRANCH_TYPES(t).builds_snapshot
        \/ m = "release" /\ BRANCH_TYPES(t).builds_release}

ValidationErrors ==
    {"UnknownBranchType", "MissingVersionInBranchName",
     "MalformedVersionInBranchName", "BaseVersionMismatch", "UnknownMode",
     "IllegalModeForBranch", "MalformedBranchName"}

\* The repository is as the last command found it: the same branch checked
\* out, every branch at the same commit with the same version file, the
\* same tags.
Restored ==
    /\ repo.active = repo.start.active
    /\ repo.branches = repo.start.branches
    /\ tags = repo.start.tags

\* C28: when python_version refuses the new base version on the current
\* branch, bump_version raises with the version file and the history as
\* they were: nothing written, no commit made.
C28_BumpValidatesFirst ==
    (result.call = "bump_version" /\ Failed
       /\ result.err \in ValidationErrors) =>
        /\ Restored
        /\ base_version = repo.start.branches[repo.start.active].version

\* bump_version refused 0.1rc1 on develop.
C28_Witness ==
    /\ result.call = "bump_version"
    /\ result.err = "BaseVersionMismatch"
    /\ repo.active = S_develop
    /\ repo.commands = 1

WrappedCalls ==
    {"start_release", "start_hotfix", "start_feature", "end_feature",
     "end_hotfix"}

\* C29: a flow command under @cleanup that raises leaves the repository as
\* it found it: the start branch checked out at the start commit, every
\* other branch where it pointed, and no branch or tag of the command left.
C29_CleanupRestores ==
    (result.call \in WrappedCalls /\ Failed) => Restored

\* The deriver accepts base on branch br in the mode the build would use.
AcceptedOn(base, br) ==
    LET bm == get_build_mode(mode, br, codename)
        v == [branch |-> br, revno |-> 1, revid |-> S_abc1234]
    IN  /\ bm.status = "ok"
        /\ python_version(base, v, bm.v, codename).status = "ok"

\* The branches the last command created whose names start with prefix,
\* as the versions after the prefix.
Created(prefix) ==
    {Drop(b, Len(prefix)) :
        b \in {c \in DOMAIN repo.branches \ DOMAIN repo.start.branches :
                   StartsWith(c, prefix)}}

\* C30: the versions the flow proposes pass the deriver's validation on
\* the branches it creates. From a develop whose base version is valid,
\* start_release is never refused by the deriver, and when it completes,
\* release-<V> holds <V>rc1 and develop holds <V>next, both accepted; from
\* a master whose base version is valid, start_hotfix is never refused, and
\* hotfix-<H> holds <H>rc1, accepted.
C30_ProposedVersionsPass ==
    /\ (/\ result.call = "start_release"
        /\ S_develop \in DOMAIN repo.start.branches
        /\ AcceptedOn(repo.start.branches[S_develop].version, S_develop))
       => /\ result.err \notin ValidationErrors \cup {"ValueError",
                                                      "IndexError"}
          /\ Derived =>
               \E V \in Created(S_release \o <<"-">>) :
                   /\ repo.branches[S_release \o <<"-">> \o V].version
                        = V \o S_rc \o <<"1">>
                   /\ AcceptedOn(V \o S_rc \o <<"1">>,
                                 S_release \o <<"-">> \o V)
                   /\ repo.branches[S_develop].version = V \o S_next
                   /\ AcceptedOn(V \o S_next, S_develop)
    /\ (/\ result.call = "start_hotfix"
        /\ S_master \in DOMAIN repo.start.branches
        /\ AcceptedOn(repo.start.branches[S_master].version, S_master))
       => /\ result.err \notin ValidationErrors \cup {"ValueError",
                                                      "IndexError"}
          /\ Derived =>
               \E H \in Created(S_hotfix \o <<"-">>) :
                   /\ repo.branches[S_hotfix \o <<"-">> \o H].version
                        = H \o S_rc \o <<"1">>
                   /\ AcceptedOn(H \o S_rc \o <<"1">>,
                                 S_hotfix \o <<"-">> \o H)

\* start_release from develop at 0.1dev left release-0.1 at 0.1rc1 and
\* develop at 0.1next, after start_hotfix had made hotfix-0.1.1.
C30_Witness ==
    /\ result.call = "start_release" /\ Derived
    /\ repo.start.branches[S_develop].version = S_0_1 \o S_dev
    /\ S_release \o <<"-">> \o S_0_1 \in DOMAIN repo.branches
    /\ repo.branches[S_release \o <<"-">> \o S_0_1].version = S_0_1rc1
    /\ repo.branches[S_develop].version = S_0_1 \o S_next
    /\ S_hotfix \o <<"-">> \o S_0_1_1 \in DOMAIN repo.branches

====
